---- MODULE Spec2Model ----
(***************************************************************************)
(* A model of kodus agent-readiness: the analysis engine (analyzer.ts),    *)
(* the score aggregator (scorer.ts) and the CLI orchestration (cli main).  *)
(*                                                                         *)
(* Numbers.  LEVEL_THRESHOLD = 0.8 is kept as the fraction 4/5.  The       *)
(* double-precision expressions of scorer.ts are modelled by the integer   *)
(* expressions they equal on the sizes drawn here:                         *)
(*   passedCount / n >= 0.8          <=>  5 * passedCount >= 4 * n         *)
(*   Math.ceil(n * 0.8)               =   (4 * n + 4) \div 5               *)
(*   Math.round((p / t) * 100)        =   (200 * p + t) \div (2 * t)       *)
(* The first two agree with IEEE-754 doubles for every n below 2^31; the   *)
(* third agrees for every total below 40 (at p = 23, t = 40 the double     *)
(* product is 57.49999999999999 and JavaScript rounds it to 57, not 58).   *)
(***************************************************************************)
EXTENDS Integers, Sequences, FiniteSets, TLC

VARIABLES
    pillars,          \* Pillar[]: the catalog handed to the engine and the scorer
    results,          \* Map<string, CriterionResult[]>: pillar id -> result list
    pillarScores,     \* PillarScore[]
    levelResult,      \* LevelResult
    recommendations,  \* Recommendation[]
    pc,               \* position of the computation (of main and of engine.run)
    opts,             \* CLIOptions, and whether an API key is available
    config,           \* Config, as loadConfig returns it
    aiEnabled,        \* AnalysisEngine.aiEnabled
    llmClient,        \* AnalysisEngine.llmClient is defined
    pillarIdx,        \* run(): position of `pillar` in this.pillars
    promises,         \* run(): the promises of runCriterion for the current pillar
    notifications,    \* the calls of onPillarStart / onPillarComplete so far
    exitCode,         \* the process's exit code
    invoked,          \* history: <<pillar id, criterion id>> of every check called
    returned,         \* history: what each settled check did
    outOfOrder,       \* history: a check settled while an earlier one of its pillar was pending
    rootFiles,        \* names of the files at the root of the repository
    fileContents,     \* what the root files that are read contain (content marks)
    projectInfo       \* ProjectInfo, as detectProject returns it

scoreVars == <<pillars, results, pillarScores, levelResult, recommendations>>
mainVars == <<opts, config, exitCode>>
engineVars == <<aiEnabled, llmClient, pillarIdx, promises, notifications,
                invoked, returned, outOfOrder>>
detectVars == <<rootFiles, fileContents, projectInfo>>
vars == <<scoreVars, pc, mainVars, engineVars, detectVars>>

(***************************************************************************)
(* Program constants                                                       *)
(***************************************************************************)
\* LEVEL_THRESHOLD = 0.8 = LEVEL_THRESHOLD_NUM / LEVEL_THRESHOLD_DEN
LEVEL_THRESHOLD_NUM == 4
LEVEL_THRESHOLD_DEN == 5

\* type MaturityLevel = 1 | 2 | 3 | 4 | 5, and scorer.ts' `levels` array
MaxMaturityLevel == 5
levels == 1..MaxMaturityLevel

\* nextLevel: MaturityLevel | null
Null == 0

(***************************************************************************)
(* Bounds of the inputs drawn                                              *)
(***************************************************************************)
\* general catalogs: at most MaxCriteria criteria, spread over two pillars
MaxCriteria == 2
\* grid catalogs: up to MaxGridPillars pillars, each with a level-1 and a level-2 criterion
MaxGridPillars == 5
\* uniform catalogs: one pillar with up to MaxBucket criteria of one level
MaxBucket == 11

(***************************************************************************)
(* Helpers                                                                 *)
(***************************************************************************)
Min(S) == CHOOSE x \in S : \A y \in S : x <= y

RECURSIVE Flatten(_)
\* concatenation of a sequence of sequences, in order
Flatten(ss) == IF ss = <<>> THEN <<>> ELSE Head(ss) \o Flatten(Tail(ss))

(***************************************************************************)
(* scorer.ts                                                               *)
(***************************************************************************)
\* results.get(pillarId) ?? []
ResultsGet(rs, pillarId) ==
    IF pillarId \in DOMAIN rs THEN rs[pillarId] ELSE <<>>

\* pillarResults.find((r) => r.criterionId === criterionId) !== undefined
HasResult(pillarResults, criterionId) ==
    \E i \in 1..Len(pillarResults) : pillarResults[i].criterionId = criterionId

\* pillarResults.find((r) => r.criterionId === criterionId): the first match
FindResult(pillarResults, criterionId) ==
    pillarResults[Min({i \in 1..Len(pillarResults) :
                          pillarResults[i].criterionId = criterionId})]

\* Math.round((passed / total) * 100), for 0 <= passed <= total, total > 0
RoundPercent(passed, total) == (200 * passed + total) \div (2 * total)

\* PillarScoreOf without the filter on skipped: every result is counted
PillarScoreOfCountingSkipped(pillar, rs) ==
    LET pillarResults == ResultsGet(rs, pillar.id)
        passed  == Len(SelectSeq(pillarResults, LAMBDA r : r.pass))
        total   == Len(pillarResults)
    IN  [pillarId   |-> pillar.id,
         passed     |-> passed,
         total      |-> total,
         percentage |-> IF total > 0 THEN RoundPercent(passed, total) ELSE 0]

\* PillarScoreOf with `passed` counted before the filter on skipped
PillarScoreOfPassedBeforeFilter(pillar, rs) ==
    LET pillarResults == ResultsGet(rs, pillar.id)
        counted == SelectSeq(pillarResults, LAMBDA r : ~r.skipped)
        passed  == Len(SelectSeq(pillarResults, LAMBDA r : r.pass))
        total   == Len(counted)
    IN  [pillarId   |-> pillar.id,
         passed     |-> passed,
         total      |-> total,
         percentage |-> IF total > 0 THEN RoundPercent(passed, total) ELSE 0]

\* the body of calculatePillarScores' pillars.map callback
PillarScoreOf(pillar, rs) ==
    LET pillarResults == ResultsGet(rs, pillar.id)
        counted == SelectSeq(pillarResults, LAMBDA r : ~r.skipped)
        passed  == Len(SelectSeq(counted, LAMBDA r : r.pass))
        total   == Len(counted)
    IN  [pillarId   |-> pillar.id,
         passed     |-> passed,
         total      |-> total,
         percentage |-> IF total > 0 THEN RoundPercent(passed, total) ELSE 0]

calculatePillarScores(ps, rs) ==
    [i \in 1..Len(ps) |-> PillarScoreOf(ps[i], rs)]

\* CollectPillar without `if (result?.skipped) continue`
CollectPillarKeepingSkipped(pillar, rs) ==
    LET pillarResults == ResultsGet(rs, pillar.id)
    IN  [k \in 1..Len(pillar.criteria) |->
            [level |-> pillar.criteria[k].level,
             pass  |-> IF HasResult(pillarResults, pillar.criteria[k].id)
                       THEN FindResult(pillarResults, pillar.criteria[k].id).pass
                       ELSE FALSE]]

\* CollectPillar with `result?.pass ?? true`: a criterion without result passes
CollectPillarMissingPasses(pillar, rs) ==
    LET pillarResults == ResultsGet(rs, pillar.id)
        kept == SelectSeq(pillar.criteria,
                    LAMBDA c : ~(HasResult(pillarResults, c.id)
                                 /\ FindResult(pillarResults, c.id).skipped))
    IN  [k \in 1..Len(kept) |->
            [level |-> kept[k].level,
             pass  |-> IF HasResult(pillarResults, kept[k].id)
                       THEN FindResult(pillarResults, kept[k].id).pass
                       ELSE TRUE]]

\* the inner loop of calculateLevel over one pillar's criteria: the (level, pass)
\* pairs pushed to allCriteria, skipped criteria left out
CollectPillar(pillar, rs) ==
    LET pillarResults == ResultsGet(rs, pillar.id)
        kept == SelectSeq(pillar.criteria,
                    LAMBDA c : ~(HasResult(pillarResults, c.id)
                                 /\ FindResult(pillarResults, c.id).skipped))
    IN  [k \in 1..Len(kept) |->
            [level |-> kept[k].level,
             pass  |-> IF HasResult(pillarResults, kept[k].id)
                       THEN FindResult(pillarResults, kept[k].id).pass
                       ELSE FALSE]]

\* allCriteria after the loop over the pillars
AllCriteria(ps, rs) ==
    Flatten([i \in 1..Len(ps) |-> CollectPillar(ps[i], rs)])

\* byLevel.get(lvl)
ByLevel(allCriteria, lvl) == SelectSeq(allCriteria, LAMBDA c : c.level = lvl)

\* criteriaAtLevel.filter((c) => c.pass).length
PassedCount(criteriaAtLevel) == Len(SelectSeq(criteriaAtLevel, LAMBDA c : c.pass))

\* PassRateReached with the bar met one passing criterion early
PassRateReachedOneShort(passedCount, size) ==
    LEVEL_THRESHOLD_DEN * (passedCount + 1) >= LEVEL_THRESHOLD_NUM * size

\* PassRateReached with > in place of >=
PassRateReachedStrict(passedCount, size) ==
    LEVEL_THRESHOLD_DEN * passedCount > LEVEL_THRESHOLD_NUM * size

\* PassRateReached with the failed criteria counted in place of the passed
PassRateReachedCountingFailed(passedCount, size) ==
    LEVEL_THRESHOLD_DEN * (size - passedCount) >= LEVEL_THRESHOLD_NUM * size

\* passRate >= LEVEL_THRESHOLD, passRate = passedCount / criteriaAtLevel.length
PassRateReached(passedCount, size) ==
    LEVEL_THRESHOLD_DEN * passedCount >= LEVEL_THRESHOLD_NUM * size

RECURSIVE WalkLevelsNoBreak(_, _, _)
\* WalkLevels with `continue` where the loop has `break`
WalkLevelsNoBreak(allCriteria, lvl, highestPassed) ==
    IF lvl > MaxMaturityLevel THEN highestPassed
    ELSE LET criteriaAtLevel == ByLevel(allCriteria, lvl)
         IN  IF Len(criteriaAtLevel) = 0
             THEN WalkLevelsNoBreak(allCriteria, lvl + 1, lvl)
             ELSE IF PassRateReached(PassedCount(criteriaAtLevel), Len(criteriaAtLevel))
                  THEN WalkLevelsNoBreak(allCriteria, lvl + 1, lvl)
                  ELSE WalkLevelsNoBreak(allCriteria, lvl + 1, highestPassed)

RECURSIVE WalkLevelsEmptyBlocks(_, _, _)
\* WalkLevels with `break` at a level without criteria
WalkLevelsEmptyBlocks(allCriteria, lvl, highestPassed) ==
    IF lvl > MaxMaturityLevel THEN highestPassed
    ELSE LET criteriaAtLevel == ByLevel(allCriteria, lvl)
         IN  IF Len(criteriaAtLevel) = 0
             THEN highestPassed
             ELSE IF PassRateReached(PassedCount(criteriaAtLevel), Len(criteriaAtLevel))
                  THEN WalkLevelsEmptyBlocks(allCriteria, lvl + 1, lvl)
                  ELSE highestPassed

RECURSIVE WalkLevels(_, _, _)
\* the for loop over `levels`, from lvl on, with the current highestPassed
WalkLevels(allCriteria, lvl, highestPassed) ==
    IF lvl > MaxMaturityLevel THEN highestPassed
    ELSE LET criteriaAtLevel == ByLevel(allCriteria, lvl)
         IN  IF Len(criteriaAtLevel) = 0
             THEN WalkLevels(allCriteria, lvl + 1, lvl)
             ELSE IF PassRateReached(PassedCount(criteriaAtLevel), Len(criteriaAtLevel))
                  THEN WalkLevels(allCriteria, lvl + 1, lvl)
                  ELSE highestPassed

\* let highestPassed = 1; then the loop
HighestPassed(allCriteria) == WalkLevels(allCriteria, 1, 1)

\* nextLevel = highestPassed < 5 ? highestPassed + 1 : null
NextLevelOf(highestPassed) ==
    IF highestPassed < MaxMaturityLevel THEN highestPassed + 1 ELSE Null

\* Needed with Math.floor in place of Math.ceil
NeededFloor(totalAtNext) ==
    (LEVEL_THRESHOLD_NUM * totalAtNext) \div LEVEL_THRESHOLD_DEN

\* Math.ceil(totalAtNext * LEVEL_THRESHOLD)
Needed(totalAtNext) ==
    (LEVEL_THRESHOLD_NUM * totalAtNext + LEVEL_THRESHOLD_DEN - 1) \div LEVEL_THRESHOLD_DEN

\* Remaining with the criterion that reaches the bar not counted
RemainingOneLess(needed, current) ==
    IF needed - current - 1 > 0 THEN needed - current - 1 ELSE 0

\* Math.max(0, needed - current)
Remaining(needed, current) == IF needed - current > 0 THEN needed - current ELSE 0

calculateLevel(ps, rs) ==
    LET allCriteria   == AllCriteria(ps, rs)
        highestPassed == HighestPassed(allCriteria)
        nextLevel     == NextLevelOf(highestPassed)
        nextLevelCriteria == ByLevel(allCriteria, nextLevel)
        current == IF nextLevel # Null THEN PassedCount(nextLevelCriteria) ELSE 0
        needed  == IF nextLevel # Null THEN Needed(Len(nextLevelCriteria)) ELSE 0
    IN  [level |-> highestPassed,
         nextLevelProgress |->
            [current   |-> current,
             needed    |-> needed,
             remaining |-> IF nextLevel # Null THEN Remaining(needed, current) ELSE 0,
             nextLevel |-> nextLevel]]

(***************************************************************************)
(* recommender.ts                                                          *)
(***************************************************************************)
\* at most this many recommendations are returned: recommendations.slice(0, 10)
MaxRecommendations == 10

\* the names of the criterion ids of the shipped catalog, followed by the keys
\* of CRITERION_INFO and EFFORT_MAP that are no id of the catalog
CriterionNames ==
    <<
       "linter", "formatter", "type-checker", "pre-commit-hooks",
       "editorconfig", "naming-conventions", "test-framework",
       "test-files-exist", "test-script", "coverage-config", "e2e-tests",
       "test-quality", "readme", "contributing", "api-docs", "codeowners",
       "ai-context", "architecture-docs", "readme-quality",
       "docs-agent-friendliness", "lock-file", "containerization",
       "env-documentation", "setup-script", "version-pinned", "ci-config",
       "ci-runs-tests", "ci-runs-linters", "build-automated",
       "deploy-pipeline", "branch-protection", "no-outdated-deps",
       "dead-code-detection", "bundle-analysis", "license",
       "security-scanning", "secrets-detection", "security-policy",
       "dep-update-automation", "test-files", "coverage", "env-docs",
       "ci-tests", "ci-linters", "build-step", "outdated-deps", "dead-code",
       "dep-updates", "inline-docs-quality", "code-structure", "file-size" >>

\* the criterion id that stands for a name: the ids up to 11 are those of the
\* drawn catalogs, the names follow from 101 on
IdOfName(name) ==
    100 + (CHOOSE k \in 1..Len(CriterionNames) : CriterionNames[k] = name)

\* the keys of CRITERION_INFO, by name
CriterionInfoKeys ==
    {
     "linter", "formatter", "type-checker", "pre-commit-hooks",
     "editorconfig", "test-framework", "test-files", "test-script",
     "coverage", "e2e-tests", "readme", "contributing", "api-docs",
     "codeowners", "ai-context", "architecture-docs", "lock-file",
     "containerization", "env-docs", "setup-script", "version-pinned",
     "ci-config", "ci-tests", "ci-linters", "build-step", "deploy-pipeline",
     "branch-protection", "outdated-deps", "dead-code", "bundle-analysis",
     "security-scanning", "secrets-detection", "license", "security-policy",
     "dep-updates", "readme-quality", "docs-agent-friendliness",
     "test-quality", "naming-conventions", "inline-docs-quality",
     "code-structure", "file-size" }

\* EFFORT_MAP: the entries of the table by name, and entries for the criterion
\* ids 1..3 of the drawn catalogs
EFFORT_MAP ==
    (1 :> "low") @@ (2 :> "high") @@ (3 :> "medium")
    @@ (IdOfName("editorconfig") :> "low")
    @@ (IdOfName("license") :> "low")
    @@ (IdOfName("readme") :> "low")
    @@ (IdOfName("contributing") :> "low")
    @@ (IdOfName("codeowners") :> "low")
    @@ (IdOfName("security-policy") :> "low")
    @@ (IdOfName("ai-context") :> "low")
    @@ (IdOfName("env-docs") :> "low")
    @@ (IdOfName("lock-file") :> "low")
    @@ (IdOfName("version-pinned") :> "low")
    @@ (IdOfName("linter") :> "medium")
    @@ (IdOfName("formatter") :> "medium")
    @@ (IdOfName("type-checker") :> "medium")
    @@ (IdOfName("pre-commit-hooks") :> "medium")
    @@ (IdOfName("test-framework") :> "medium")
    @@ (IdOfName("test-files") :> "medium")
    @@ (IdOfName("test-script") :> "medium")
    @@ (IdOfName("ci-config") :> "medium")
    @@ (IdOfName("ci-tests") :> "medium")
    @@ (IdOfName("ci-linters") :> "medium")
    @@ (IdOfName("build-step") :> "medium")
    @@ (IdOfName("setup-script") :> "medium")
    @@ (IdOfName("api-docs") :> "medium")
    @@ (IdOfName("dead-code") :> "medium")
    @@ (IdOfName("secrets-detection") :> "medium")
    @@ (IdOfName("dep-updates") :> "medium")
    @@ (IdOfName("branch-protection") :> "medium")
    @@ (IdOfName("outdated-deps") :> "medium")
    @@ (IdOfName("e2e-tests") :> "high")
    @@ (IdOfName("coverage") :> "high")
    @@ (IdOfName("containerization") :> "high")
    @@ (IdOfName("deploy-pipeline") :> "high")
    @@ (IdOfName("security-scanning") :> "high")
    @@ (IdOfName("architecture-docs") :> "high")
    @@ (IdOfName("bundle-analysis") :> "high")
    @@ (IdOfName("readme-quality") :> "high")
    @@ (IdOfName("docs-agent-friendliness") :> "high")
    @@ (IdOfName("test-quality") :> "high")
    @@ (IdOfName("naming-conventions") :> "medium")
    @@ (IdOfName("inline-docs-quality") :> "high")
    @@ (IdOfName("code-structure") :> "high")
    @@ (IdOfName("file-size") :> "high")

\* CRITERION_INFO: an entry for each key of the table and for the criterion ids
\* 1..3 of the drawn catalogs.  A text is a record of its wording and of the
\* criterion ids it names.
CRITERION_INFO ==
    [id \in {1, 2, 3} \cup {IdOfName(name) : name \in CriterionInfoKeys} |->
        [description |-> [text |-> "CRITERION_INFO description", names |-> {}],
         reason      |-> [text |-> "CRITERION_INFO reason", names |-> {}]]]

\* the criterion ids that name a property every object literal inherits from
\* Object.prototype ("constructor", "toString", "valueOf", ...): table[id] is
\* then the inherited value, not undefined.  The id 0 stands for such a name.
InheritedKeys == {0}

\* the inherited value read from a table: a function of Object.prototype
InheritedValue == "function Object"

\* EFFORT_MAP[criterionId] ?? "medium": the default is taken only when the
\* lookup gives undefined
EffortOf(criterionId) ==
    IF criterionId \in DOMAIN EFFORT_MAP THEN EFFORT_MAP[criterionId]
    ELSE IF criterionId \in InheritedKeys THEN InheritedValue
    ELSE "medium"

\* info?.description ?? `Address the failing "${item.criterionId}" criterion to
\* improve agent readiness` (an inherited value has no description property)
DescriptionOf(criterionId) ==
    IF criterionId \in DOMAIN CRITERION_INFO
    THEN CRITERION_INFO[criterionId].description
    ELSE [text  |-> "Address the failing criterion to improve agent readiness",
          names |-> {criterionId}]

\* info?.reason ?? "Meeting this criterion improves the codebase's readiness
\* for autonomous AI agents"
ReasonOf(criterionId) ==
    IF criterionId \in DOMAIN CRITERION_INFO
    THEN CRITERION_INFO[criterionId].reason
    ELSE [text  |-> "Meeting this criterion improves the codebase's readiness for autonomous AI agents",
          names |-> {}]

IMPACT_ORDER == [high |-> 0, medium |-> 1, low |-> 2]
EFFORT_ORDER == [low |-> 0, medium |-> 1, high |-> 2]

\* EFFORT_ORDER[a.effort] - EFFORT_ORDER[b.effort]; with an effort that is no
\* key of EFFORT_ORDER the difference is NaN, which sort takes for 0
EffortDiff(a, b) ==
    IF a.effort \in DOMAIN EFFORT_ORDER /\ b.effort \in DOMAIN EFFORT_ORDER
    THEN EFFORT_ORDER[a.effort] - EFFORT_ORDER[b.effort]
    ELSE 0

\* determineImpact, were "low" given only to the criteria at or below the level
determineImpactFarIsMedium(criterionLevel, currentLevel) ==
    IF criterionLevel = currentLevel + 1 THEN "high"
    ELSE IF criterionLevel >= currentLevel + 2 THEN "medium"
    ELSE "low"

determineImpact(criterionLevel, currentLevel) ==
    IF criterionLevel = currentLevel + 1 THEN "high"
    ELSE IF criterionLevel = currentLevel + 2 THEN "medium"
    ELSE "low"

\* FailedItemsOf without the test of result.skipped
FailedItemsOfWithSkipped(pillar, rs) ==
    LET pillarResults == ResultsGet(rs, pillar.id)
        failed == SelectSeq(pillar.criteria,
                      LAMBDA c : /\ HasResult(pillarResults, c.id)
                                 /\ ~FindResult(pillarResults, c.id).pass)
    IN  [k \in 1..Len(failed) |->
            [pillarId       |-> pillar.id,
             criterionId    |-> failed[k].id,
             criterionLevel |-> failed[k].level]]

\* the failedItems pushed for one pillar
FailedItemsOf(pillar, rs) ==
    LET pillarResults == ResultsGet(rs, pillar.id)
        failed == SelectSeq(pillar.criteria,
                      LAMBDA c : /\ HasResult(pillarResults, c.id)
                                 /\ ~FindResult(pillarResults, c.id).pass
                                 /\ ~FindResult(pillarResults, c.id).skipped)
    IN  [k \in 1..Len(failed) |->
            [pillarId       |-> pillar.id,
             criterionId    |-> failed[k].id,
             criterionLevel |-> failed[k].level]]

FailedItems(ps, rs) == Flatten([i \in 1..Len(ps) |-> FailedItemsOf(ps[i], rs)])

\* the Recommendation built for one failed item (title left out)
RecommendationOf(item, currentLevel) ==
    [description |-> DescriptionOf(item.criterionId),
     reason      |-> ReasonOf(item.criterionId),
     effort      |-> EffortOf(item.criterionId),
     impact      |-> determineImpact(item.criterionLevel, currentLevel),
     pillarId    |-> item.pillarId,
     criterionId |-> item.criterionId]

\* failedItems.find((f) => f.criterionId === a.criterionId && f.pillarId === a.pillarId)
FindFailed(failedItems, a) ==
    failedItems[Min({k \in 1..Len(failedItems) :
                        /\ failedItems[k].criterionId = a.criterionId
                        /\ failedItems[k].pillarId = a.pillarId})]

\* Compare of a sort by effort alone
CompareByEffortOnly(a, b, failedItems, nextLevel) ==
    EffortDiff(a, b)

\* the comparator handed to recommendations.sort
Compare(a, b, failedItems, nextLevel) ==
    LET aIsNext == IF FindFailed(failedItems, a).criterionLevel = nextLevel THEN 0 ELSE 1
        bIsNext == IF FindFailed(failedItems, b).criterionLevel = nextLevel THEN 0 ELSE 1
        impactDiff == IMPACT_ORDER[a.impact] - IMPACT_ORDER[b.impact]
    IN  IF aIsNext # bIsNext THEN aIsNext - bIsNext
        ELSE IF impactDiff # 0 THEN impactDiff
        ELSE EffortDiff(a, b)

\* InsertSorted of a sort that is not stable: x is placed before its equals
InsertSortedUnstable(sorted, x, failedItems, nextLevel) ==
    LET before == {k \in 0..Len(sorted) :
                      \A m \in 1..k : Compare(sorted[m], x, failedItems, nextLevel) < 0}
        pos == CHOOSE k \in before : \A m \in before : m <= k
    IN  SubSeq(sorted, 1, pos) \o <<x>> \o SubSeq(sorted, pos + 1, Len(sorted))

\* x placed in the sorted list: after every element that does not compare above it
InsertSorted(sorted, x, failedItems, nextLevel) ==
    LET before == {k \in 0..Len(sorted) :
                      \A m \in 1..k : Compare(sorted[m], x, failedItems, nextLevel) <= 0}
        pos == CHOOSE k \in before : \A m \in before : m <= k
    IN  SubSeq(sorted, 1, pos) \o <<x>> \o SubSeq(sorted, pos + 1, Len(sorted))

RECURSIVE SortFrom(_, _, _, _)
\* Array.prototype.sort, which is stable: the elements of list, from the left,
\* each placed into the sorted list
SortFrom(sorted, list, failedItems, nextLevel) ==
    IF list = <<>> THEN sorted
    ELSE SortFrom(InsertSorted(sorted, Head(list), failedItems, nextLevel),
                  Tail(list), failedItems, nextLevel)

\* recommendations.slice(0, 10)
Slice(list) == SubSeq(list, 1, IF Len(list) < MaxRecommendations THEN Len(list)
                                ELSE MaxRecommendations)

\* generateRecommendations with the slice taken before the sort
generateRecommendationsSliceFirst(ps, rs, scores, lr) ==
    LET currentLevel == lr.level
        failedItems == FailedItems(ps, rs)
        recs == [k \in 1..Len(failedItems) |-> RecommendationOf(failedItems[k], currentLevel)]
    IN  SortFrom(<<>>, Slice(recs), failedItems, currentLevel + 1)

generateRecommendations(ps, rs, scores, lr) ==
    LET currentLevel == lr.level
        failedItems == FailedItems(ps, rs)
        recs == [k \in 1..Len(failedItems) |-> RecommendationOf(failedItems[k], currentLevel)]
    IN  Slice(SortFrom(<<>>, recs, failedItems, currentLevel + 1))

(***************************************************************************)
(* Records of the data model                                               *)
(***************************************************************************)
Criterion(id, level, requiresLLM) ==
    [id |-> id, level |-> level, requiresLLM |-> requiresLLM]

Pillar(id, criteria) == [id |-> id, criteria |-> criteria]

\* a CriterionResult; message is the sequence of the parts of its text
Result(criterionId, pass, message, skipped) ==
    [criterionId |-> criterionId, pass |-> pass, message |-> message,
     skipped |-> skipped]

CriterionResult(criterionId, pass, skipped) ==
    Result(criterionId, pass, <<"message">>, skipped)

(***************************************************************************)
(* analyzer.ts: AnalysisEngine                                             *)
(***************************************************************************)
\* a promise of runCriterion: pending, or fulfilled with a CriterionResult
Pending == [state |-> "pending", value |-> CriterionResult(0, FALSE, FALSE)]
Fulfilled(value) == [state |-> "fulfilled", value |-> value]

\* what a check can do once called: resolve with a passing, a failing or a
\* skipped result, or throw / reject.  The checks of the requiresLLM criteria
\* resolve with pass = false when they are handed no llmClient, and never
\* report themselves skipped.
CheckOutcomes(criterion) ==
    IF criterion.requiresLLM
    THEN IF llmClient THEN {"pass", "fail", "throw"} ELSE {"fail", "throw"}
    ELSE {"pass", "fail", "skip", "throw"}

\* the CriterionResult a check resolves with
CheckResult(criterion, outcome) ==
    CriterionResult(criterion.id, outcome \in {"pass", "skip"}, outcome = "skip")

\* runCriterion's early return, without skipped: true
SkippedResultCounted(criterion) ==
    Result(criterion.id, FALSE, <<"Requires --ai flag">>, FALSE)

\* runCriterion's early return for a requiresLLM criterion
SkippedResult(criterion) ==
    Result(criterion.id, FALSE, <<"Requires --ai flag">>, TRUE)

\* runCriterion's catch block, with skipped: true added
CaughtResultSkipped(criterion) ==
    Result(criterion.id, FALSE, <<"Check failed: ", "errorMessage">>, TRUE)

\* runCriterion's catch block
CaughtResult(criterion) ==
    Result(criterion.id, FALSE, <<"Check failed: ", "errorMessage">>, FALSE)

\* runCriterion: criterion.requiresLLM && !this.aiEnabled
SkipsCheck(criterion) == criterion.requiresLLM /\ ~aiEnabled

\* the state of runCriterion's promise once its check has settled, were the
\* try / catch missing: a check that throws leaves it rejected
PromiseAfterUncaught(criterion, outcome) ==
    IF outcome = "throw"
    THEN [state |-> "rejected", value |-> CaughtResult(criterion)]
    ELSE Fulfilled(CheckResult(criterion, outcome))

\* the state of runCriterion's promise once its check has settled: try { return
\* await criterion.check(...) } catch { return {...} }
PromiseAfter(criterion, outcome) ==
    Fulfilled(IF outcome = "throw" THEN CaughtResult(criterion)
              ELSE CheckResult(criterion, outcome))

\* Promise.all resolving as soon as one promise has settled
SomeSettled(ps) == ps = <<>> \/ \E j \in 1..Len(ps) : ps[j].state = "fulfilled"

\* Promise.all(promises) has resolved: every promise is fulfilled
AllSettled(ps) == \A j \in 1..Len(ps) : ps[j].state = "fulfilled"

\* criteriaResults in the reverse of the criteria's order
PromiseValuesReversed(ps) == [j \in 1..Len(ps) |-> ps[Len(ps) + 1 - j].value]

\* criteriaResults: the values of the promises, in the order of the promises
PromiseValues(ps) == [j \in 1..Len(ps) |-> ps[j].value]

\* allResults.set(pillar.id, criteriaResults)
MapSet(rs, pillarId, criteriaResults) ==
    [pid \in DOMAIN rs \cup {pillarId} |->
        IF pid = pillarId THEN criteriaResults ELSE rs[pid]]

Pipeline == <<pillarScores, levelResult, recommendations>>

\* run(): the top of `for (const pillar of this.pillars)`; onPillarStart
StartPillar ==
    /\ pc = "pillar"
    /\ pillarIdx <= Len(pillars)
    /\ notifications' = Append(notifications,
                               [type |-> "start", pillarId |-> pillars[pillarIdx].id])
    /\ promises' = <<>>
    /\ pc' = IF Len(pillars[pillarIdx].criteria) = 0 THEN "await" ELSE "map"
    /\ UNCHANGED <<detectVars, pillars, results, Pipeline, mainVars, aiEnabled, llmClient,
                   pillarIdx, invoked, returned, outOfOrder>>

\* pillar.criteria.map: runCriterion called for the next criterion, up to its
\* early return or to its await of criterion.check(...)
RunCriterion ==
    /\ pc = "map"
    /\ LET pillar == pillars[pillarIdx]
           criterion == pillar.criteria[Len(promises) + 1]
       IN  /\ IF SkipsCheck(criterion)
              THEN /\ promises' = Append(promises, Fulfilled(SkippedResult(criterion)))
                   /\ invoked' = invoked
              ELSE /\ promises' = Append(promises, Pending)
                   /\ invoked' = invoked \cup {<<pillar.id, criterion.id>>}
           /\ pc' = IF Len(promises) + 1 = Len(pillar.criteria) THEN "await" ELSE "map"
    /\ UNCHANGED <<detectVars, pillars, results, Pipeline, mainVars, aiEnabled, llmClient,
                   pillarIdx, notifications, returned, outOfOrder>>

\* CheckSettlesAt, were the checks awaited one after the other: the check of
\* criterion j settles only once those before it have
CheckSettlesInOrder(j) ==
    /\ pc = "await"
    /\ j \in 1..Len(promises)
    /\ \A k \in 1..(j - 1) : promises[k].state # "pending"
    /\ LET pillar == pillars[pillarIdx]
           criterion == pillar.criteria[j]
       IN  /\ promises[j].state = "pending"
           /\ \E outcome \in CheckOutcomes(criterion) :
                /\ promises' = [promises EXCEPT ![j] = PromiseAfter(criterion, outcome)]
                /\ returned' = [x \in DOMAIN returned \cup {<<pillar.id, criterion.id>>} |->
                                   IF x = <<pillar.id, criterion.id>> THEN outcome
                                   ELSE returned[x]]
           /\ outOfOrder' = (outOfOrder \/ \E k \in 1..(j - 1) :
                                               promises[k].state = "pending")
    /\ UNCHANGED <<detectVars, pillars, results, Pipeline, pc, mainVars, aiEnabled, llmClient,
                   pillarIdx, notifications, invoked>>

\* the check of the j-th criterion of the pillar, which was called, settles,
\* and runCriterion's promise with it
CheckSettlesAt(j) ==
    /\ pc = "await"
    /\ j \in 1..Len(promises)
    /\ LET pillar == pillars[pillarIdx]
           criterion == pillar.criteria[j]
       IN  /\ promises[j].state = "pending"
           /\ \E outcome \in CheckOutcomes(criterion) :
                /\ promises' = [promises EXCEPT ![j] = PromiseAfter(criterion, outcome)]
                /\ returned' = [x \in DOMAIN returned \cup {<<pillar.id, criterion.id>>} |->
                                   IF x = <<pillar.id, criterion.id>> THEN outcome
                                   ELSE returned[x]]
           /\ outOfOrder' = (outOfOrder \/ \E k \in 1..(j - 1) :
                                               promises[k].state = "pending")
    /\ UNCHANGED <<detectVars, pillars, results, Pipeline, pc, mainVars, aiEnabled, llmClient,
                   pillarIdx, notifications, invoked>>

\* a check that was called settles: any of the pending ones
CheckSettles == \E j \in 1..Len(promises) : CheckSettlesAt(j)

\* await Promise.all(...) resumes: allResults.set, onPillarComplete, next pillar
CompletePillar ==
    /\ pc = "await"
    /\ AllSettled(promises)
    /\ results' = MapSet(results, pillars[pillarIdx].id, PromiseValues(promises))
    /\ notifications' = Append(notifications,
                               [type |-> "complete", pillarId |-> pillars[pillarIdx].id])
    /\ pillarIdx' = pillarIdx + 1
    /\ promises' = <<>>
    /\ pc' = "pillar"
    /\ UNCHANGED <<detectVars, pillars, Pipeline, mainVars, aiEnabled, llmClient,
                   invoked, returned, outOfOrder>>

\* run(): the loop is over, return allResults; main resumes after its await
RunReturns ==
    /\ pc = "pillar"
    /\ pillarIdx > Len(pillars)
    /\ pc' = "scoring"
    /\ UNCHANGED <<detectVars, scoreVars, mainVars, engineVars>>

(***************************************************************************)
(* Inputs of the pure functions: catalogs and result maps                  *)
(***************************************************************************)
\* what a result map holds for one criterion: a result that passed or failed, a
\* skipped result (with either pass flag), or no result at all
Outcomes == {"pass", "fail", "skip", "skippass", "none"}

\* the outcomes drawn for the general catalogs: a skipped result carries pass = false
GeneralOutcomes == {"pass", "fail", "skip", "none"}

ResultOfOutcome(criterionId, outcome) ==
    CriterionResult(criterionId, outcome \in {"pass", "skippass"},
                    outcome \in {"skip", "skippass"})

\* the result list of one pillar: one result per criterion whose outcome is not
\* "none", in criterion order
ResultList(pillar, oc) ==
    LET present == SelectSeq(pillar.criteria, LAMBDA c : oc[c.id] # "none")
    IN  [k \in 1..Len(present) |-> ResultOfOutcome(present[k].id, oc[present[k].id])]

\* the result map: a pillar none of whose criteria has a result has no entry
ResultMap(ps, oc) ==
    LET withResults == {i \in 1..Len(ps) : ResultList(ps[i], oc) # <<>>}
    IN  [pid \in {ps[i].id : i \in withResults} |->
            ResultList(ps[CHOOSE i \in withResults : ps[i].id = pid], oc)]

\* n criteria with ids 1..n and levels lv, the first n1 in pillar 1, the rest in pillar 2
GeneralCatalog(n, n1, lv) ==
    << Pillar(1, [j \in 1..n1 |-> Criterion(j, lv[j], FALSE)]),
       Pillar(2, [j \in 1..(n - n1) |-> Criterion(n1 + j, lv[n1 + j], FALSE)]) >>

\* one pillar with one criterion per level
LadderCatalog ==
    << Pillar(1, [j \in 1..MaxMaturityLevel |-> Criterion(j, j, FALSE)]) >>

\* np pillars, pillar i holding criterion 2i-1 of level 1 and criterion 2i of level 2
GridCatalog(np) ==
    [i \in 1..np |-> Pillar(i, << Criterion(2 * i - 1, 1, FALSE),
                                  Criterion(2 * i, 2, FALSE) >>)]

\* one pillar with n criteria of level lvl
UniformCatalog(n, lvl) ==
    << Pillar(1, [j \in 1..n |-> Criterion(j, lvl, FALSE)]) >>

\* the inputs drawn: (pillars, results) is one of
\*   - a general catalog with any levels and any outcomes,
\*   - the ladder catalog with any outcomes,
\*   - a grid catalog with every criterion passed or failed,
\*   - a uniform catalog whose first k criteria pass and whose others fail,
\*   - a uniform catalog whose criteria are all skipped,
\*   - one criterion whose id names an inherited property, passed or failed
DrawInputs ==
    \/ \E n \in 0..MaxCriteria : \E n1 \in 0..n :
       \E lv \in [1..n -> levels] : \E oc \in [1..n -> GeneralOutcomes] :
          /\ pillars = GeneralCatalog(n, n1, lv)
          /\ results = ResultMap(GeneralCatalog(n, n1, lv), oc)
    \/ \E oc \in [1..MaxMaturityLevel -> Outcomes] :
          /\ pillars = LadderCatalog
          /\ results = ResultMap(LadderCatalog, oc)
    \/ \E np \in 1..MaxGridPillars : \E oc \in [1..(2 * np) -> {"pass", "fail"}] :
          /\ pillars = GridCatalog(np)
          /\ results = ResultMap(GridCatalog(np), oc)
    \/ \E n \in 1..MaxBucket : \E lvl \in levels : \E k \in 0..n :
          /\ pillars = UniformCatalog(n, lvl)
          /\ results = ResultMap(UniformCatalog(n, lvl),
                                 [j \in 1..n |-> IF j <= k THEN "pass" ELSE "fail"])
    \/ \E n \in 1..MaxBucket : \E lvl \in levels :
          /\ pillars = UniformCatalog(n, lvl)
          /\ results = ResultMap(UniformCatalog(n, lvl), [j \in 1..n |-> "skip"])
    \/ \E id \in InheritedKeys : \E lvl \in levels : \E o \in {"pass", "fail"} :
          /\ pillars = << Pillar(1, << Criterion(id, lvl, FALSE) >>) >>
          /\ results = ResultMap(<< Pillar(1, << Criterion(id, lvl, FALSE) >>) >>,
                                 [j \in {id} |-> o])

\* the outputs before anything is computed
NoLevelResult ==
    [level |-> Null,
     nextLevelProgress |-> [current |-> 0, needed |-> 0, remaining |-> 0,
                            nextLevel |-> Null]]

(***************************************************************************)
(* engine/detector.ts: project types and monorepo detection                *)
(***************************************************************************)
\* TYPE_INDICATORS: the indicator files of each project type, in table order
TYPE_INDICATORS ==
    << [type |-> "node",   files |-> <<"package.json">>],
       [type |-> "python", files |-> <<"pyproject.toml", "setup.py", "requirements.txt">>],
       [type |-> "go",     files |-> <<"go.mod">>],
       [type |-> "rust",   files |-> <<"Cargo.toml">>],
       [type |-> "kotlin", files |-> <<"build.gradle.kts">>],
       [type |-> "java",   files |-> <<"pom.xml", "build.gradle">>] >>

\* what a root file that detectProject reads may contain
GradleKotlin == "build.gradle:kotlin"       \* a Kotlin plugin in build.gradle
PomKotlin == "pom.xml:kotlin"               \* kotlin-maven-plugin in pom.xml
Workspaces == "package.json:workspaces"     \* a non-empty workspaces list

\* fileExists(path.join(repoPath, file))
fileExists(files, file) == file \in files

\* Array.prototype.includes on a sequence
Includes(seq, x) == \E i \in 1..Len(seq) : seq[i] = x

\* detectTypes, first loop: one push per type whose indicator file exists
RECURSIVE IndicatorLoop(_, _, _)
IndicatorLoop(i, files, detected) ==
    IF i > Len(TYPE_INDICATORS) THEN detected
    ELSE LET indicator == TYPE_INDICATORS[i]
             found == \E k \in 1..Len(indicator.files) :
                          fileExists(files, indicator.files[k])
         IN  IndicatorLoop(i + 1, files,
                 IF found /\ ~Includes(detected, indicator.type)
                 THEN Append(detected, indicator.type)
                 ELSE detected)

\* detectTypes: the table loop, then Kotlin found in build.gradle or pom.xml
detectTypes(files, contents) ==
    LET detected == IndicatorLoop(1, files, <<>>)
        afterGradle ==
            IF /\ ~Includes(detected, "kotlin")
               /\ fileExists(files, "build.gradle")
               /\ GradleKotlin \in contents
            THEN Append(detected, "kotlin") ELSE detected
    IN  IF /\ ~Includes(detected, "kotlin")
           /\ ~Includes(afterGradle, "kotlin")
           /\ fileExists(files, "pom.xml")
           /\ PomKotlin \in contents
        THEN Append(afterGradle, "kotlin") ELSE afterGradle

\* detectMonorepo(...).isMonorepo: workspaces of package.json, then the
\* pnpm, Lerna, Nx and Turborepo files (the package list is left out)
detectMonorepo(files, contents) ==
    \/ fileExists(files, "package.json") /\ Workspaces \in contents
    \/ fileExists(files, "pnpm-workspace.yaml")
    \/ fileExists(files, "lerna.json")
    \/ fileExists(files, "nx.json")
    \/ fileExists(files, "turbo.json")

\* detectProject
detectProject(files, contents) ==
    [detectedTypes |-> detectTypes(files, contents),
     isMonorepo |-> detectMonorepo(files, contents)]

\* projectInfo before detectProject has run
NoProjectInfo == [detectedTypes |-> <<>>, isMonorepo |-> FALSE]

\* the repository main is pointed at in Spec and ScoreSpec: a Node project
NodeRepository ==
    /\ rootFiles = {"package.json"}
    /\ fileContents = {}
    /\ projectInfo = NoProjectInfo

(***************************************************************************)
(* ScoreSpec: the aggregator applied to drawn inputs                       *)
(***************************************************************************)
\* the engine and main at rest
Idle ==
    /\ aiEnabled = FALSE
    /\ llmClient = FALSE
    /\ pillarIdx = 1
    /\ promises = <<>>
    /\ notifications = <<>>
    /\ exitCode = 0
    /\ invoked = {}
    /\ returned = <<>>
    /\ outOfOrder = FALSE

\* Config of a repository without a config file: loadConfig returns {}
\* (levelPass: thresholds["level-pass"] as a fraction <<numerator, denominator>>,
\* <<>> when the file does not set it)
EmptyConfig ==
    [pillars |-> <<>>, criteria |-> <<>>, aiEnabled |-> FALSE, levelPass |-> <<>>]

DefaultOptions ==
    [ai |-> FALSE, apiKey |-> FALSE, ci |-> FALSE, format |-> "text",
     minLevel |-> Null, init |-> FALSE, web |-> TRUE]

ScoreInit ==
    /\ DrawInputs
    /\ pillarScores = <<>>
    /\ levelResult = NoLevelResult
    /\ recommendations = <<>>
    /\ pc = "input"
    /\ opts = DefaultOptions
    /\ config = EmptyConfig
    /\ Idle
    /\ NodeRepository

\* Score, were the result lists reordered in place on the way
ScoreReorderingResults ==
    /\ pc = "input"
    /\ LET scores == calculatePillarScores(pillars, results)
           lr == calculateLevel(pillars, results)
       IN  /\ pillarScores' = scores
           /\ levelResult' = lr
           /\ recommendations' = generateRecommendations(pillars, results, scores, lr)
    /\ results' = [pid \in DOMAIN results |->
                       [k \in 1..Len(results[pid]) |->
                           results[pid][Len(results[pid]) + 1 - k]]]
    /\ pc' = "scored"
    /\ UNCHANGED <<detectVars, pillars, mainVars, engineVars>>

\* calculatePillarScores, calculateLevel and generateRecommendations applied to
\* (pillars, results): they build new arrays (map, filter, push) and sort only
\* the array of recommendations they have built
Score ==
    /\ pc = "input"
    /\ LET scores == calculatePillarScores(pillars, results)
           lr == calculateLevel(pillars, results)
       IN  /\ pillarScores' = scores
           /\ levelResult' = lr
           /\ recommendations' = generateRecommendations(pillars, results, scores, lr)
    /\ pc' = "scored"
    /\ UNCHANGED <<detectVars, pillars, results, mainVars, engineVars>>

\* the three functions called a second time, on the catalog and the result map
\* as the first call left them
ScoreAgain ==
    /\ pc = "scored"
    /\ LET scores == calculatePillarScores(pillars, results)
           lr == calculateLevel(pillars, results)
       IN  /\ pillarScores' = scores
           /\ levelResult' = lr
           /\ recommendations' = generateRecommendations(pillars, results, scores, lr)
    /\ pc' = "rescored"
    /\ UNCHANGED <<detectVars, pillars, results, mainVars, engineVars>>

ScoreNext == Score \/ ScoreAgain

ScoreSpec == ScoreInit /\ [][ScoreNext]_vars

(***************************************************************************)
(* DetectSpec: detectProject applied to drawn repository roots             *)
(***************************************************************************)
\* the most files a drawn repository root holds
MaxRootFiles == 2

\* the file names a drawn root may hold: every indicator file the detector
\* or its tests name, and a file that indicates nothing
RootFileNames ==
    {"package.json", "pyproject.toml", "setup.py", "requirements.txt", "go.mod",
     "Cargo.toml", "build.gradle.kts", "pom.xml", "build.gradle",
     "MyApp.csproj", "MyApp.sln", "Gemfile", "composer.json", "Package.swift",
     "pnpm-workspace.yaml", "lerna.json", "nx.json", "turbo.json", "README.md"}

\* the content marks the files of a root can carry
ContentMarksOf(files) ==
    (IF "build.gradle" \in files THEN {GradleKotlin} ELSE {})
    \cup (IF "pom.xml" \in files THEN {PomKotlin} ELSE {})
    \cup (IF "package.json" \in files THEN {Workspaces} ELSE {})

DetectInit ==
    /\ rootFiles \in {fs \in SUBSET RootFileNames : Cardinality(fs) <= MaxRootFiles}
    /\ fileContents \in SUBSET ContentMarksOf(rootFiles)
    /\ projectInfo = NoProjectInfo
    /\ pillars = <<>>
    /\ results = <<>>
    /\ pillarScores = <<>>
    /\ levelResult = NoLevelResult
    /\ recommendations = <<>>
    /\ pc = "detect"
    /\ opts = DefaultOptions
    /\ config = EmptyConfig
    /\ Idle

\* detectProject(repoPath) is called and returns
Detect ==
    /\ pc = "detect"
    /\ projectInfo' = detectProject(rootFiles, fileContents)
    /\ pc' = "detected"
    /\ UNCHANGED <<rootFiles, fileContents, scoreVars, mainVars, engineVars>>

DetectSpec == DetectInit /\ [][Detect]_vars

(***************************************************************************)
(* CatalogSpec: the aggregator applied to the pillars of the shipped       *)
(* catalog                                                                 *)
(***************************************************************************)
\* the shipped catalog: the pillars of ALL_PILLARS in its order (style-linting,
\* testing, documentation, dev-environment, ci-cd, code-health, security),
\* each with its criteria: id, level, requiresLLM
ShippedPillars ==
    <<
       Pillar(1, << \* style-linting
                    Criterion(IdOfName("linter"), 2, FALSE),
                    Criterion(IdOfName("formatter"), 2, FALSE),
                    Criterion(IdOfName("type-checker"), 3, FALSE),
                    Criterion(IdOfName("pre-commit-hooks"), 3, FALSE),
                    Criterion(IdOfName("editorconfig"), 1, FALSE),
                    Criterion(IdOfName("naming-conventions"), 5, TRUE) >>),
       Pillar(2, << \* testing
                    Criterion(IdOfName("test-framework"), 2, FALSE),
                    Criterion(IdOfName("test-files-exist"), 2, FALSE),
                    Criterion(IdOfName("test-script"), 2, FALSE),
                    Criterion(IdOfName("coverage-config"), 4, FALSE),
                    Criterion(IdOfName("e2e-tests"), 4, FALSE),
                    Criterion(IdOfName("test-quality"), 5, TRUE) >>),
       Pillar(3, << \* documentation
                    Criterion(IdOfName("readme"), 1, FALSE),
                    Criterion(IdOfName("contributing"), 2, FALSE),
                    Criterion(IdOfName("api-docs"), 3, FALSE),
                    Criterion(IdOfName("codeowners"), 3, FALSE),
                    Criterion(IdOfName("ai-context"), 3, FALSE),
                    Criterion(IdOfName("architecture-docs"), 4, FALSE),
                    Criterion(IdOfName("readme-quality"), 5, TRUE),
                    Criterion(IdOfName("docs-agent-friendliness"), 5, TRUE) >>),
       Pillar(4, << \* dev-environment
                    Criterion(IdOfName("lock-file"), 1, FALSE),
                    Criterion(IdOfName("containerization"), 3, FALSE),
                    Criterion(IdOfName("env-documentation"), 2, FALSE),
                    Criterion(IdOfName("setup-script"), 2, FALSE),
                    Criterion(IdOfName("version-pinned"), 2, FALSE) >>),
       Pillar(5, << \* ci-cd
                    Criterion(IdOfName("ci-config"), 2, FALSE),
                    Criterion(IdOfName("ci-runs-tests"), 3, FALSE),
                    Criterion(IdOfName("ci-runs-linters"), 3, FALSE),
                    Criterion(IdOfName("build-automated"), 3, FALSE),
                    Criterion(IdOfName("deploy-pipeline"), 4, FALSE),
                    Criterion(IdOfName("branch-protection"), 4, FALSE) >>),
       Pillar(6, << \* code-health
                    Criterion(IdOfName("no-outdated-deps"), 3, FALSE),
                    Criterion(IdOfName("dead-code-detection"), 4, FALSE),
                    Criterion(IdOfName("bundle-analysis"), 5, FALSE) >>),
       Pillar(7, << \* security
                    Criterion(IdOfName("license"), 1, FALSE),
                    Criterion(IdOfName("security-scanning"), 4, FALSE),
                    Criterion(IdOfName("secrets-detection"), 4, FALSE),
                    Criterion(IdOfName("security-policy"), 3, FALSE),
                    Criterion(IdOfName("dep-update-automation"), 3, FALSE) >>)
    >>

\* what a result map can hold for the criteria of a shipped pillar: a passed or
\* a failed result, or a skipped one for a requiresLLM criterion
ShippedOutcomes(pillar) ==
    {oc \in [{pillar.criteria[j].id : j \in 1..Len(pillar.criteria)} ->
                 {"pass", "fail", "skip"}] :
        \A j \in 1..Len(pillar.criteria) :
            oc[pillar.criteria[j].id] = "skip" => pillar.criteria[j].requiresLLM}

\* the catalog is filtered down to one shipped pillar, whose results are drawn
CatalogInit ==
    /\ \E i \in 1..Len(ShippedPillars) : \E oc \in ShippedOutcomes(ShippedPillars[i]) :
          /\ pillars = << ShippedPillars[i] >>
          /\ results = ResultMap(<< ShippedPillars[i] >>, oc)
    /\ pillarScores = <<>>
    /\ levelResult = NoLevelResult
    /\ recommendations = <<>>
    /\ pc = "input"
    /\ opts = DefaultOptions
    /\ config = EmptyConfig
    /\ Idle
    /\ NodeRepository

CatalogSpec == CatalogInit /\ [][ScoreNext]_vars

(***************************************************************************)
(* cli: main                                                               *)
(***************************************************************************)
\* ALL_PILLARS, cut down to two pillars: criterion 2 requires the LLM, and the
\* level-2 bucket holds a criterion of each pillar
ALL_PILLARS ==
    << Pillar(1, << Criterion(1, 1, FALSE), Criterion(2, 5, TRUE),
                    Criterion(3, 2, FALSE) >>),
       Pillar(2, << Criterion(4, 2, FALSE) >>) >>

\* the values of --min-level drawn (Null: the option is not given)
MinLevels == {Null, 3, 5}

\* the config files drawn: none; one switching pillar 2 off and naming pillar 1
\* and criterion 1 as on; one switching criterion 3 off and AI on; one setting
\* thresholds.level-pass to 0.5
Configs ==
    { EmptyConfig,
      [pillars |-> (1 :> TRUE) @@ (2 :> FALSE), criteria |-> (1 :> TRUE),
       aiEnabled |-> FALSE, levelPass |-> <<>>],
      [pillars |-> <<>>, criteria |-> (3 :> FALSE), aiEnabled |-> TRUE,
       levelPass |-> <<>>],
      [pillars |-> <<>>, criteria |-> <<>>, aiEnabled |-> FALSE,
       levelPass |-> <<1, 2>>] }

\* config.pillars![p.id] !== false, config.criteria![c.id] !== false
NotFalse(toggles, id) == ~(id \in DOMAIN toggles /\ toggles[id] = FALSE)

\* FilterPillars without the filter on config.criteria
FilterPillarsKeepingCriteria(ps, cfg) ==
    SelectSeq(ps, LAMBDA q : NotFalse(cfg.pillars, q.id))

\* main: the pillars and criteria left by the config's toggles
FilterPillars(ps, cfg) ==
    LET kept == SelectSeq(ps, LAMBDA q : NotFalse(cfg.pillars, q.id))
    IN  [i \in 1..Len(kept) |->
            Pillar(kept[i].id,
                   SelectSeq(kept[i].criteria, LAMBDA c : NotFalse(cfg.criteria, c.id)))]

\* process.exit(code)
Exit(code) == pc' = "exited" /\ exitCode' = code

\* main's last step: --min-level is set and the level is below it
BelowMinLevel(lr) == opts.minLevel # Null /\ lr.level < opts.minLevel

\* main, step q: process.exit(1) below the minimum level; else main returns and
\* the process ends with code 0
MinLevelStep(lr) == IF BelowMinLevel(lr) THEN Exit(1) ELSE Exit(0)

Init ==
    /\ pillars = ALL_PILLARS
    /\ results = <<>>
    /\ pillarScores = <<>>
    /\ levelResult = NoLevelResult
    /\ recommendations = <<>>
    /\ pc = "main"
    /\ opts \in [ai : BOOLEAN, apiKey : BOOLEAN, ci : BOOLEAN, format : {"text", "json"},
                  minLevel : MinLevels, init : BOOLEAN, web : BOOLEAN]
    /\ config \in Configs
    /\ Idle
    /\ NodeRepository

\* main up to engine.run(): the path is checked, --init handled, the config
\* loaded, the AI settings resolved, the pillars filtered, the engine built
MainSetup ==
    /\ pc = "main"
    /\ \/ \* fs.access(repoPath) fails: the path does not exist
          /\ Exit(1)
          /\ UNCHANGED <<detectVars, scoreVars, opts, config, engineVars>>
       \/ \* --init and the config file exists already
          /\ opts.init
          /\ Exit(1)
          /\ UNCHANGED <<detectVars, scoreVars, opts, config, engineVars>>
       \/ \* --init: the config file is written and main returns
          /\ opts.init
          /\ Exit(0)
          /\ UNCHANGED <<detectVars, scoreVars, opts, config, engineVars>>
       \/ /\ ~opts.init
          /\ aiEnabled' = (opts.ai \/ config.aiEnabled)
          /\ llmClient' = ((opts.ai \/ config.aiEnabled) /\ opts.apiKey)
          /\ pillars' = FilterPillars(ALL_PILLARS, config)
          /\ pc' = "pillar"
          /\ projectInfo' = detectProject(rootFiles, fileContents)
          /\ UNCHANGED <<rootFiles, fileContents, results, Pipeline, mainVars, pillarIdx, promises,
                         notifications, invoked, returned, outOfOrder>>

\* main after engine.run(): scores, level, recommendations, the report; then
\* the dashboard server is started, or with --no-web the min-level step runs
MainReport ==
    /\ pc = "scoring"
    /\ LET scores == calculatePillarScores(pillars, results)
           lr == calculateLevel(pillars, results)
       IN  /\ pillarScores' = scores
           /\ levelResult' = lr
           /\ recommendations' = generateRecommendations(pillars, results, scores, lr)
           /\ IF opts.web
              THEN pc' = "web" /\ exitCode' = exitCode
              ELSE MinLevelStep(lr)
    /\ UNCHANGED <<detectVars, pillars, results, opts, config, engineVars>>

\* startServer and openBrowser succeed: main awaits a promise that never
\* settles ("Block until the process is killed")
WebServerUp ==
    /\ pc = "web"
    /\ pc' = "blocked"
    /\ UNCHANGED <<detectVars, scoreVars, mainVars, engineVars>>

\* startServer or openBrowser rejects: the error is printed, then the min-level step
WebServerFails ==
    /\ pc = "web"
    /\ MinLevelStep(levelResult)
    /\ UNCHANGED <<detectVars, scoreVars, opts, config, engineVars>>

\* Ctrl+C: the blocked process is killed by SIGINT
Killed ==
    /\ pc = "blocked"
    /\ Exit(128 + 2)
    /\ UNCHANGED <<detectVars, scoreVars, opts, config, engineVars>>

EngineNext ==
    StartPillar \/ RunCriterion \/ CheckSettles \/ CompletePillar \/ RunReturns

Next ==
    \/ MainSetup
    \/ EngineNext
    \/ MainReport
    \/ WebServerUp
    \/ WebServerFails
    \/ Killed

Spec == Init /\ [][Next]_vars

\* Every step of main and of the engine is taken once it can be, and every
\* check that was called settles; the dashboard server may stay up, and
\* nobody need press Ctrl+C.  MainReport is enabled exactly when pc = "scoring"
\* and is the only step leaving it, so weak fairness of MainReport is written
\* as: main is again and again not at "scoring".
Fairness ==
    /\ WF_vars(MainSetup)
    /\ WF_vars(EngineNext)
    /\ []<>(pc # "scoring")
    /\ WF_vars(WebServerUp \/ WebServerFails)

FairSpec == Spec /\ Fairness

(***************************************************************************)
(* Vocabulary of the properties, stated on the catalog and the result map  *)
(* themselves: a criterion is the pair <<i, j>> of its pillar's and its    *)
(* own position                                                            *)
(***************************************************************************)
Max(S) == CHOOSE x \in S : \A y \in S : x >= y

Scored == pc = "scored"

CriteriaAt ==
    UNION { { <<i, j>> : j \in 1..Len(pillars[i].criteria) } : i \in 1..Len(pillars) }

CriterionAt(ij) == pillars[ij[1]].criteria[ij[2]]

\* positions, in the list of the criterion's pillar, of the results carrying its id
MatchesIn(rs, ij) ==
    {k \in 1..Len(ResultsGet(rs, pillars[ij[1]].id)) :
        ResultsGet(rs, pillars[ij[1]].id)[k].criterionId = CriterionAt(ij).id}

\* the criterion has a result and the first one carrying its id is skipped
SkippedIn(rs, ij) ==
    \E k \in MatchesIn(rs, ij) :
        /\ \A m \in MatchesIn(rs, ij) : k <= m
        /\ ResultsGet(rs, pillars[ij[1]].id)[k].skipped

\* the criterion has a result, the first one carrying its id is not skipped and passes
PassingIn(rs, ij) ==
    \E k \in MatchesIn(rs, ij) :
        /\ \A m \in MatchesIn(rs, ij) : k <= m
        /\ ~ResultsGet(rs, pillars[ij[1]].id)[k].skipped
        /\ ResultsGet(rs, pillars[ij[1]].id)[k].pass

\* the bucket of level lvl: its criteria that are not skipped; and those of them passing
BucketIn(rs, lvl) == {ij \in CriteriaAt : CriterionAt(ij).level = lvl /\ ~SkippedIn(rs, ij)}
BucketPassedIn(rs, lvl) == {ij \in BucketIn(rs, lvl) : PassingIn(rs, ij)}
Bucket(lvl) == BucketIn(results, lvl)
BucketPassed(lvl) == BucketPassedIn(results, lvl)

\* the bucket is non-empty and fewer than 80% of it pass
GateFailedIn(rs, lvl) ==
    /\ BucketIn(rs, lvl) # {}
    /\ 5 * Cardinality(BucketPassedIn(rs, lvl)) < 4 * Cardinality(BucketIn(rs, lvl))
GateFailed(lvl) == GateFailedIn(results, lvl)

\* F: the lowest level whose gate fails, Null when every gate holds
FirstFailed ==
    IF \E lvl \in 1..5 : GateFailed(lvl)
    THEN Min({lvl \in 1..5 : GateFailed(lvl)})
    ELSE Null

\* the result map with the pass flag of the k-th result of pillar pid inverted
FlipPass(rs, pid, k) ==
    [rs EXCEPT ![pid][k].pass = ~rs[pid][k].pass]

\* the results of criteria of a level above lvl: pairs <<pillar id, position>>
ResultsAbove(lvl) ==
    {pk \in UNION { { <<pid, k>> : k \in 1..Len(results[pid]) } : pid \in DOMAIN results } :
           \E ij \in CriteriaAt :
              /\ pillars[ij[1]].id = pk[1]
              /\ CriterionAt(ij).id = results[pk[1]][pk[2]].criterionId
              /\ CriterionAt(ij).level > lvl}

(***************************************************************************)
(* Properties of the score aggregator (ScoreSpec)                          *)
(***************************************************************************)

\* C1: calculateLevel returns level = max(1, F - 1), F the lowest level in 1..5
\* whose bucket of non-skipped criteria is non-empty with passed/size < 0.8, and
\* level = 5 when there is no such F; inverting the pass flag of any result of
\* a level above F leaves the returned level as it is.
C1_LevelIsBelowFirstFailedGate ==
    Scored =>
        LET F == FirstFailed
        IN  /\ levelResult.level = IF F = Null THEN 5 ELSE Max({1, F - 1})
            /\ F # Null =>
                  \A pk \in ResultsAbove(F) :
                     calculateLevel(pillars, FlipPass(results, pk[1], pk[2])).level
                        = levelResult.level

\* C1 witness: the gate of level 3 is the first to fail, level 2 is returned,
\* and level 4's bucket is non-empty and passes its own bar
C1_Witness ==
    /\ Scored
    /\ FirstFailed = 3
    /\ levelResult.level = 2
    /\ Bucket(4) # {}
    /\ ~GateFailed(4)

\* C2 as claimed: the bucket of the reported level and of every level below it
\* is empty or has at least 80% of its non-skipped criteria passing.
C2_ReportedLevelPassedItsBar ==
    Scored => \A lvl \in 1..levelResult.level : ~GateFailed(lvl)

\* C2 amended: the same for every reported level above 1; level 1 is the
\* baseline, and the only gate that can be failed at or below the reported
\* level is level 1's own, when level 1 is reported.
C2_ReportedLevelPassedItsBarAboveBaseline ==
    Scored =>
        \A lvl \in 1..levelResult.level :
            GateFailed(lvl) => (lvl = 1 /\ levelResult.level = 1)

\* C2 witness: level 3 is reported, and the buckets of levels 1, 2 and 3 are
\* all non-empty
C2_Witness ==
    /\ Scored
    /\ levelResult.level = 3
    /\ \A lvl \in 1..3 : Bucket(lvl) # {}

\* C9: one PillarScore per pillar, in input order; total counts the pillar's
\* results whose skipped is falsy, passed those of them with pass = true,
\* percentage is 100 * passed / total rounded to the nearest integer (half up),
\* 0 when total = 0; and a skipped result added anywhere in a pillar's list
\* leaves that pillar's passed, total and percentage as they are.
C9_PillarScores ==
    Scored =>
        /\ Len(pillarScores) = Len(pillars)
        /\ \A i \in 1..Len(pillars) :
             LET list == ResultsGet(results, pillars[i].id)
                 counted == {k \in 1..Len(list) : ~list[k].skipped}
                 passing == {k \in counted : list[k].pass}
                 sc == pillarScores[i]
             IN  /\ sc.pillarId = pillars[i].id
                 /\ sc.total = Cardinality(counted)
                 /\ sc.passed = Cardinality(passing)
                 /\ 0 <= sc.passed /\ sc.passed <= sc.total
                 /\ sc.total = 0 => sc.percentage = 0
                 /\ sc.total > 0 =>
                       /\ 2 * sc.total * sc.percentage <= 200 * sc.passed + sc.total
                       /\ 200 * sc.passed + sc.total < 2 * sc.total * (sc.percentage + 1)
                 /\ \A pos \in 0..Len(list) : \A cid \in 0..Len(list) + 1 :
                    \A pass \in BOOLEAN :
                       calculatePillarScores(pillars,
                           [pid \in DOMAIN results \cup {pillars[i].id} |->
                               IF pid = pillars[i].id
                               THEN SubSeq(list, 1, pos)
                                       \o << CriterionResult(cid, pass, TRUE) >>
                                       \o SubSeq(list, pos + 1, Len(list))
                               ELSE results[pid]])[i] = sc

\* C9 witness: a pillar scored 1 of 3, that is 33%, whose list also holds a
\* skipped result carrying pass = true
C9_Witness ==
    /\ Scored
    /\ \E i \in 1..Len(pillars) :
         /\ pillarScores[i].passed = 1
         /\ pillarScores[i].total = 3
         /\ pillarScores[i].percentage = 33
         /\ \E k \in 1..Len(ResultsGet(results, pillars[i].id)) :
               /\ results[pillars[i].id][k].skipped
               /\ results[pillars[i].id][k].pass

\* 5 passing level-1 criteria, 5 failing level-2 criteria and nothing else
ScenarioA ==
    /\ Cardinality(Bucket(1)) = 5 /\ Cardinality(BucketPassed(1)) = 5
    /\ Cardinality(Bucket(2)) = 5 /\ BucketPassed(2) = {}
    /\ \A lvl \in 3..5 : Bucket(lvl) = {}

\* C10: nextLevel = level + 1 when level < 5 and null when level = 5; with
\* nextLevel non-null, current is the number of passing non-skipped criteria
\* of nextLevel's bucket, needed = ceil(0.8 * bucket size) and remaining =
\* max(0, needed - current); with nextLevel null all three are 0.  5 passing
\* level-1 and 5 failing level-2 criteria give level 1, nextLevel 2, remaining 4.
C10_NextLevelProgress ==
    Scored =>
        LET lr == levelResult
            np == levelResult.nextLevelProgress
            size == Cardinality(Bucket(np.nextLevel))
        IN  /\ lr.level < 5 => np.nextLevel = lr.level + 1
            /\ lr.level = 5 => np.nextLevel = Null
            /\ np.nextLevel # Null =>
                  /\ np.current = Cardinality(BucketPassed(np.nextLevel))
                  /\ 5 * np.needed >= 4 * size
                  /\ 5 * (np.needed - 1) < 4 * size
                  /\ np.remaining = Max({0, np.needed - np.current})
            /\ np.nextLevel = Null =>
                  np.current = 0 /\ np.needed = 0 /\ np.remaining = 0
            /\ ScenarioA => lr.level = 1 /\ np.nextLevel = 2 /\ np.remaining = 4

\* C10 witness: scenario A has been scored
C10_Witness == Scored /\ ScenarioA

(***************************************************************************)
(* Vocabulary of the engine's properties                                   *)
(***************************************************************************)
\* the key of a criterion in invoked and returned
KeyAt(ij) == <<pillars[ij[1]].id, CriterionAt(ij).id>>

\* the pillar at position i has been completed: its results are in the map
Completed(i) == i < pillarIdx

\* the result that run() holds for the criterion of a completed pillar
ResultAt(ij) == results[pillars[ij[1]].id][ij[2]]

\* notifications holds a notification of this type for the pillar at position i
Notified(type, i) ==
    \E k \in 1..Len(notifications) :
        notifications[k] = [type |-> type, pillarId |-> pillars[i].id]

\* run() has returned: the loop over the pillars is over
RunReturned == pc \in {"scoring", "web", "blocked", "exited"} /\ pillarIdx > Len(pillars)

\* main has computed the scores, the level and the recommendations
Yielded == RunReturned /\ pc # "scoring"

(***************************************************************************)
(* Properties of the engine and of main (Spec, FairSpec)                   *)
(***************************************************************************)

\* C3: for every requiresLLM criterion, when no llmClient was supplied, run()
\* never invokes the criterion's check and its result has pass = false and
\* skipped = true, whatever aiEnabled is.
C3_WithoutClientNeverInvokedAndSkipped ==
    \A ij \in CriteriaAt :
        (pc # "main" /\ CriterionAt(ij).requiresLLM /\ ~llmClient) =>
            /\ KeyAt(ij) \notin invoked
            /\ Completed(ij[1]) => (~ResultAt(ij).pass /\ ResultAt(ij).skipped)

\* C4: a criterion whose check threw has the result pass = false, skipped =
\* false, its own criterionId and a message starting with "Check failed: ";
\* its promise is fulfilled all the same; every other criterion, of the same
\* and of any other pillar, has exactly the result its check returned; and
\* once run() has returned every pillar has its completion notification.
C4_ThrowingCheckIsReportedAlone ==
    /\ \A ij \in CriteriaAt :
          (Completed(ij[1]) /\ KeyAt(ij) \in DOMAIN returned) =>
              IF returned[KeyAt(ij)] = "throw"
              THEN /\ ~ResultAt(ij).pass
                   /\ ~ResultAt(ij).skipped
                   /\ ResultAt(ij).criterionId = CriterionAt(ij).id
                   /\ Head(ResultAt(ij).message) = "Check failed: "
              ELSE ResultAt(ij) = CheckResult(CriterionAt(ij), returned[KeyAt(ij)])
    /\ pc = "await" =>
          \A j \in 1..Len(promises) :
              <<pillars[pillarIdx].id, pillars[pillarIdx].criteria[j].id>> \in DOMAIN returned
                  => promises[j].state = "fulfilled"
    /\ RunReturned => \A i \in 1..Len(pillars) : Notified("complete", i)

\* run() has returned; in pillar 1 one check threw and another passed, and the
\* check of pillar 2 passed
C4_Witness ==
    /\ pc = "scoring"
    /\ DOMAIN returned = {<<1, 1>>, <<1, 2>>, <<1, 3>>, <<2, 4>>}
    /\ returned[<<1, 1>>] = "throw"
    /\ returned[<<1, 3>>] = "pass"
    /\ returned[<<2, 4>>] = "pass"

\* C5: whatever the order in which the checks settle, the map of run() has
\* exactly one entry per pillar completed so far (every input pillar once it
\* has returned), whose list has one result per criterion of the pillar, the
\* result at index j being the one produced for the criterion at index j.
C5_ResultsInCriterionOrder ==
    /\ DOMAIN results = {pillars[i].id : i \in 1..(pillarIdx - 1)}
    /\ RunReturned => DOMAIN results = {pillars[i].id : i \in 1..Len(pillars)}
    /\ \A i \in 1..(pillarIdx - 1) :
          /\ Len(results[pillars[i].id]) = Len(pillars[i].criteria)
          /\ \A j \in 1..Len(pillars[i].criteria) :
                LET ij == <<i, j>>
                    r == ResultAt(ij)
                IN  /\ r.criterionId = CriterionAt(ij).id
                    /\ IF KeyAt(ij) \in DOMAIN returned
                       THEN /\ r.pass = (returned[KeyAt(ij)] \in {"pass", "skip"})
                            /\ r.skipped = (returned[KeyAt(ij)] = "skip")
                       ELSE r.skipped /\ ~r.pass

\* run() has returned, the three checks of pillar 1 were called and one of them
\* settled before an earlier one, with different outcomes first and last
C5_Witness ==
    /\ pc = "scoring"
    /\ outOfOrder
    /\ {<<1, 1>>, <<1, 2>>, <<1, 3>>} \subseteq DOMAIN returned
    /\ returned[<<1, 1>>] = "fail"
    /\ returned[<<1, 3>>] = "pass"

\* C6: pillar phases never overlap.  onPillarStart(p) has fired before any
\* check of p is invoked; onPillarComplete(p) fires only when every check of
\* p that was invoked has settled; onPillarStart(q) and every invocation of a
\* check of q come after onPillarComplete(p) for every pillar p before q; and
\* the notifications are start, complete, start, complete, ... in the order
\* of the input pillars.
C6_PillarPhasesNeverOverlap ==
    /\ \A ij \in CriteriaAt :
          KeyAt(ij) \in invoked =>
              /\ Notified("start", ij[1])
              /\ \A p \in 1..(ij[1] - 1) : Notified("complete", p)
              /\ Notified("complete", ij[1]) => KeyAt(ij) \in DOMAIN returned
    /\ \A q \in 1..Len(pillars) :
          Notified("start", q) => \A p \in 1..(q - 1) : Notified("complete", p)
    /\ Len(notifications) <= 2 * Len(pillars)
    /\ \A k \in 1..Len(notifications) :
          notifications[k] =
              [type |-> IF k % 2 = 1 THEN "start" ELSE "complete",
               pillarId |-> pillars[(k + 1) \div 2].id]

\* run() has returned after two pillars whose checks were invoked, the checks of
\* pillar 1 settling out of their order
C6_Witness ==
    /\ pc = "scoring"
    /\ Len(notifications) = 4
    /\ outOfOrder
    /\ <<1, 1>> \in invoked
    /\ <<2, 4>> \in invoked

\* C7: with every invoked check settling, run() reaches its terminal state,
\* all pillars completed, for every mix of passing, failing, skipped and
\* throwing checks, and main then yields a level in 1..5, one score per
\* pillar and a list of at most 10 recommendations.
C7_RunCompletesAndPipelineYields ==
    /\ (pc = "pillar") ~>
           (RunReturned /\ \A i \in 1..Len(pillars) :
                               Notified("complete", i) /\ pillars[i].id \in DOMAIN results)
    /\ RunReturned ~>
           /\ Yielded
           /\ levelResult.level \in levels
           /\ Len(pillarScores) = Len(pillars)
           /\ Len(recommendations) <= MaxRecommendations

\* the pipeline has yielded after a run in which one check threw, one reported
\* itself skipped, one failed, and the requiresLLM criterion was skipped by the engine
C7_Witness ==
    /\ Yielded
    /\ levelResult.level \in levels
    /\ DOMAIN returned = {<<1, 1>>, <<1, 3>>, <<2, 4>>}
    /\ returned[<<1, 1>>] = "throw"
    /\ returned[<<1, 3>>] = "skip"
    /\ returned[<<2, 4>>] = "fail"
    /\ results[1][2].skipped
    /\ recommendations # <<>>

\* C8: run with --min-level N, once the analysis has completed with level < N
\* the process eventually exits with code 1, with the dashboard on (the
\* default) or off and whatever --ci and --format are; with level >= N it
\* does not exit with code 1.
C8_BelowMinLevelExitsWithOne ==
    /\ (Yielded /\ BelowMinLevel(levelResult)) ~> (pc = "exited" /\ exitCode = 1)
    /\ [](Yielded /\ ~BelowMinLevel(levelResult) => exitCode # 1)

(***************************************************************************)
(* Vocabulary of the recommender's properties                              *)
(***************************************************************************)
\* the criterion has a result, and the first one carrying its id neither
\* passes nor is skipped
FailingIn(rs, ij) ==
    \E k \in MatchesIn(rs, ij) :
        /\ \A m \in MatchesIn(rs, ij) : k <= m
        /\ ~ResultsGet(rs, pillars[ij[1]].id)[k].skipped
        /\ ~ResultsGet(rs, pillars[ij[1]].id)[k].pass

Failing == {ij \in CriteriaAt : FailingIn(results, ij)}

\* the recommendation carries the ids of the criterion and of its pillar
RefersTo(r, ij) ==
    r.pillarId = pillars[ij[1]].id /\ r.criterionId = CriterionAt(ij).id

\* the criteria a recommendation refers to
Referred(r) == {ij \in CriteriaAt : RefersTo(r, ij)}

\* the criteria that some returned recommendation refers to
Recommended == UNION {Referred(recommendations[k]) : k \in 1..Len(recommendations)}

\* catalog order: pillar input order, then criterion order within the pillar
CatalogBefore(a, b) == a[1] < b[1] \/ (a[1] = b[1] /\ a[2] < b[2])

ImpactRank(impact) == CASE impact = "high" -> 0 [] impact = "medium" -> 1 [] impact = "low" -> 2
EffortRank(effort) == CASE effort = "low" -> 0 [] effort = "medium" -> 1 [] effort = "high" -> 2

\* the sort key of a failed criterion, given the level reported
CandidateKey(ij) ==
    << IF CriterionAt(ij).level = levelResult.level + 1 THEN 0 ELSE 1,
       ImpactRank(determineImpact(CriterionAt(ij).level, levelResult.level)),
       EffortRank(EffortOf(CriterionAt(ij).id)) >>

\* the sort key of a returned recommendation, read from its own fields
RecKey(r) ==
    << IF \E ij \in Referred(r) : CriterionAt(ij).level = levelResult.level + 1 THEN 0 ELSE 1,
       ImpactRank(r.impact),
       EffortRank(r.effort) >>

\* lexicographic order of keys
KeyLess(x, y) ==
    \/ x[1] < y[1]
    \/ x[1] = y[1] /\ x[2] < y[2]
    \/ x[1] = y[1] /\ x[2] = y[2] /\ x[3] < y[3]

(***************************************************************************)
(* Properties of the recommender (ScoreSpec)                               *)
(***************************************************************************)

\* C11: every recommendation returned refers to exactly one criterion of the
\* catalog, one whose matching result has pass = false and is not skipped, and
\* carries that criterion's id and its pillar's id; no criterion is recommended
\* twice; a criterion that passed, was skipped or has no result is never
\* recommended.
C11_RecommendationsOnlyForFailedCriteria ==
    Scored =>
        /\ \A k \in 1..Len(recommendations) :
              /\ Cardinality(Referred(recommendations[k])) = 1
              /\ Referred(recommendations[k]) \subseteq Failing
              /\ \A m \in 1..Len(recommendations) :
                    m # k => Referred(recommendations[m]) # Referred(recommendations[k])
        /\ \A ij \in CriteriaAt :
              (PassingIn(results, ij) \/ SkippedIn(results, ij) \/ MatchesIn(results, ij) = {})
                  => ij \notin Recommended

\* recommendations were returned for a catalog that also holds a passing
\* criterion, a criterion skipped with pass = false and a criterion without result
C11_Witness ==
    /\ Scored
    /\ recommendations # <<>>
    /\ \E ij \in CriteriaAt : PassingIn(results, ij)
    /\ \E ij \in CriteriaAt : MatchesIn(results, ij) = {}
    /\ \E ij \in CriteriaAt :
          /\ SkippedIn(results, ij)
          /\ \A k \in MatchesIn(results, ij) : ~ResultsGet(results, pillars[ij[1]].id)[k].pass

\* C12: with n failed non-skipped criteria, min(10, n) recommendations are
\* returned, and they are the first of the fully sorted candidates: every
\* omitted candidate has a key that is not smaller than the key of any returned
\* one, and with an equal key comes later in catalog order.
C12_AtMostTenFirstOfSorted ==
    Scored =>
        /\ Len(recommendations) <= MaxRecommendations
        /\ Len(recommendations) = Min({MaxRecommendations, Cardinality(Failing)})
        /\ \A o \in Failing \ Recommended : \A r \in Recommended :
              /\ ~KeyLess(CandidateKey(o), CandidateKey(r))
              /\ CandidateKey(o) = CandidateKey(r) => CatalogBefore(r, o)

\* more than 10 criteria failed, 10 were returned, and an omitted one comes
\* before a returned one in the catalog: the sort decided what was cut
C12_Witness ==
    /\ Scored
    /\ Cardinality(Failing) > MaxRecommendations
    /\ Len(recommendations) = MaxRecommendations
    /\ \E o \in Failing \ Recommended : \E r \in Recommended :
          CatalogBefore(o, r) /\ KeyLess(CandidateKey(r), CandidateKey(o))

\* C13: in the returned list, an entry placed before another has a key
\* (criterion level # level + 1, impact rank, effort rank) that is
\* lexicographically <= the other's, and entries with equal keys are in catalog
\* order.
C13_SortedByKeyAndStable ==
    Scored =>
        \A k \in 1..Len(recommendations) : \A m \in (k + 1)..Len(recommendations) :
            LET a == recommendations[k]
                b == recommendations[m]
            IN  /\ ~KeyLess(RecKey(b), RecKey(a))
                /\ RecKey(a) = RecKey(b) =>
                      \A x \in Referred(a) : \A y \in Referred(b) : CatalogBefore(x, y)

\* the returned list holds two entries with equal keys, two that differ in the
\* impact rank and two of one impact that differ in the effort rank, and an
\* entry that precedes one that is before it in the catalog
C13_Witness ==
    /\ Scored
    /\ \E k, m \in 1..Len(recommendations) :
          k < m /\ RecKey(recommendations[k]) = RecKey(recommendations[m])
    /\ \E k, m \in 1..Len(recommendations) :
          RecKey(recommendations[k])[2] < RecKey(recommendations[m])[2]
    /\ \E k, m \in 1..Len(recommendations) :
          /\ RecKey(recommendations[k])[2] = RecKey(recommendations[m])[2]
          /\ RecKey(recommendations[k])[3] < RecKey(recommendations[m])[3]
    /\ \E k, m \in 1..Len(recommendations) :
          /\ k < m
          /\ \E x \in Referred(recommendations[k]) : \E y \in Referred(recommendations[m]) :
                CatalogBefore(y, x)

(***************************************************************************)
(* Properties of the pipeline: engine, scorer and recommender (Spec)       *)
(***************************************************************************)
\* the criteria of the run that require the LLM
LLMCriteria == {ij \in CriteriaAt : CriterionAt(ij).requiresLLM}

\* the catalog and the result map with the requiresLLM criteria and the results
\* carrying their ids left out
PillarsWithoutLLM ==
    [i \in 1..Len(pillars) |->
        Pillar(pillars[i].id, SelectSeq(pillars[i].criteria, LAMBDA c : ~c.requiresLLM))]
ResultsWithoutLLM ==
    [pid \in DOMAIN results |->
        SelectSeq(results[pid],
                  LAMBDA r : \A ij \in LLMCriteria :
                                ~(pillars[ij[1]].id = pid /\ CriterionAt(ij).id = r.criterionId))]

\* C14: with AI not enabled, every requiresLLM criterion ends the pipeline
\* skipped and is not counted as a failure: its check is not invoked, its
\* result is skipped, the pillar scores and the level result are those of the
\* run without these criteria, and no recommendation refers to one of them.
C14_WithoutAILLMCriteriaAreNotCounted ==
    (Yielded /\ ~aiEnabled) =>
        /\ \A ij \in LLMCriteria :
              /\ KeyAt(ij) \notin invoked
              /\ ResultAt(ij).skipped
              /\ ij \notin Recommended
              /\ \A lvl \in levels : ij \notin Bucket(lvl)
        /\ pillarScores = calculatePillarScores(PillarsWithoutLLM, ResultsWithoutLLM)
        /\ levelResult = calculateLevel(PillarsWithoutLLM, ResultsWithoutLLM)

\* the pipeline has yielded without AI, the level-5 criterion requiring the LLM
\* was in the run, every check passed, and level 5 is reported
C14_Witness ==
    /\ Yielded
    /\ ~aiEnabled
    /\ LLMCriteria # {}
    /\ DOMAIN returned = {<<1, 1>>, <<1, 3>>, <<2, 4>>}
    /\ \A x \in DOMAIN returned : returned[x] = "pass"
    /\ levelResult.level = MaxMaturityLevel
    /\ pillarScores[1].total = 2

\* the lowest level whose non-empty bucket has a pass rate below t = num / den,
\* Null when there is none; and the level that gating with t reports
FirstFailedWith(t) ==
    LET failed == {lvl \in levels :
                      /\ Bucket(lvl) # {}
                      /\ t[2] * Cardinality(BucketPassed(lvl)) < t[1] * Cardinality(Bucket(lvl))}
    IN  IF failed = {} THEN Null ELSE Min(failed)
LevelWith(t) ==
    IF FirstFailedWith(t) = Null THEN MaxMaturityLevel
    ELSE Max({1, FirstFailedWith(t) - 1})

\* C15: when the config file sets thresholds.level-pass to t, the level is
\* computed with t, not 0.8, as the pass rate a level's bucket must reach.
C15_LevelUsesConfiguredThreshold ==
    (Yielded /\ config.levelPass # <<>>) =>
        levelResult.level = LevelWith(config.levelPass)

\* the catalog that the toggles of the config leave of ALL_PILLARS
ToggledOff(toggles, id) == id \in DOMAIN toggles /\ toggles[id] = FALSE
KeptPillars == SelectSeq(ALL_PILLARS, LAMBDA q : ~ToggledOff(config.pillars, q.id))
KeptCatalog ==
    [i \in 1..Len(KeptPillars) |->
        Pillar(KeptPillars[i].id,
               SelectSeq(KeptPillars[i].criteria,
                         LAMBDA c : ~ToggledOff(config.criteria, c.id)))]

\* the ids of the pillars and of the criteria that the config switches off
PillarsOff == {ALL_PILLARS[i].id : i \in {k \in 1..Len(ALL_PILLARS) :
                                              ToggledOff(config.pillars, ALL_PILLARS[k].id)}}
CriteriaOff ==
    UNION { {ALL_PILLARS[i].criteria[j].id :
                j \in {k \in 1..Len(ALL_PILLARS[i].criteria) :
                          \/ ToggledOff(config.criteria, ALL_PILLARS[i].criteria[k].id)
                          \/ ALL_PILLARS[i].id \in PillarsOff}} :
            i \in 1..Len(ALL_PILLARS) }

\* C16: the toggles are applied before the engine runs.  From the engine's
\* start on, the catalog is ALL_PILLARS without the pillars and the criteria
\* whose entry is false, the others (entry true or absent) kept in their
\* order; no check of a criterion switched off is invoked, and no result
\* list, PillarScore, level bucket or recommendation holds one.
C16_TogglesAppliedBeforeTheRun ==
    pc \notin {"main", "exited"} \/ (pc = "exited" /\ pillarIdx > 1) =>
        /\ pillars = KeptCatalog
        /\ \A x \in invoked : x[1] \notin PillarsOff /\ x[2] \notin CriteriaOff
        /\ DOMAIN results \cap PillarsOff = {}
        /\ \A pid \in DOMAIN results : \A k \in 1..Len(results[pid]) :
              results[pid][k].criterionId \notin CriteriaOff
        /\ \A k \in 1..Len(pillarScores) : pillarScores[k].pillarId \notin PillarsOff
        /\ \A k \in 1..Len(recommendations) :
              /\ recommendations[k].pillarId \notin PillarsOff
              /\ recommendations[k].criterionId \notin CriteriaOff
        /\ Yielded =>
              /\ pillarScores = calculatePillarScores(KeptCatalog, results)
              /\ levelResult = calculateLevel(KeptCatalog, results)
        /\ \A lvl \in levels : \A ij \in Bucket(lvl) : CriterionAt(ij).id \notin CriteriaOff

\* the pipeline has yielded under the config that switches pillar 2 off and
\* names pillar 1 and criterion 1 as on: pillar 1 ran whole, and level 5 is
\* reported though the check of criterion 4 never ran
C16_Witness ==
    /\ Yielded
    /\ PillarsOff = {2}
    /\ 1 \in DOMAIN config.pillars
    /\ 1 \in DOMAIN config.criteria
    /\ {<<1, 1>>, <<1, 3>>} \subseteq invoked
    /\ Len(pillarScores) = 1
    /\ levelResult.level = MaxMaturityLevel

(***************************************************************************)
(* Further properties of the score aggregator (ScoreSpec)                  *)
(***************************************************************************)

GatesHoldBelow(lvl) == \A l \in 1..(lvl - 1) : ~GateFailed(l)

\* C18: the level-pass threshold is inclusive.  A non-empty bucket with exactly
\* 80% of its non-skipped criteria passing (8 of 10, 4 of 5) passes its gate:
\* with the gates below it holding, the level reported is at least the
\* bucket's; the same bucket with one pass fewer fails it: the level reported
\* is the one below (1 at least), and from level 2 on the bucket's level is
\* the next level, one more pass being needed.
C18_ThresholdIsInclusive ==
    Scored =>
        \A lvl \in levels :
            (GatesHoldBelow(lvl) /\ Bucket(lvl) # {}) =>
                /\ 5 * Cardinality(BucketPassed(lvl)) = 4 * Cardinality(Bucket(lvl))
                      => levelResult.level >= lvl
                /\ 5 * (Cardinality(BucketPassed(lvl)) + 1) = 4 * Cardinality(Bucket(lvl))
                      => /\ levelResult.level = Max({1, lvl - 1})
                         /\ lvl >= 2 => /\ levelResult.nextLevelProgress.nextLevel = lvl
                                        /\ levelResult.nextLevelProgress.remaining = 1

\* 8 of the 10 criteria of level 2 pass, and a level of at least 2 is reported
C18_Witness ==
    /\ Scored
    /\ Cardinality(Bucket(2)) = 10
    /\ Cardinality(BucketPassed(2)) = 8
    /\ levelResult.level >= 2

\* the catalog and the result map with one more pillar (id 0) holding a single
\* criterion (id 0) of level lvl, which passes
PillarsWithPassingAt(lvl) ==
    Append(pillars, Pillar(0, << Criterion(0, lvl, FALSE) >>))
ResultsWithPassingAt(lvl) ==
    [pid \in DOMAIN results \cup {0} |->
        IF pid = 0 THEN << CriterionResult(0, TRUE, FALSE) >> ELSE results[pid]]

\* C19: a level whose bucket holds no non-skipped criterion never blocks the
\* levels above it: when every level below L passes its gate and the bucket of
\* L is empty, the level returned is at least L, and the result is the one
\* returned when the bucket of L holds a single passing criterion.
C19_EmptyLevelNeverBlocks ==
    Scored =>
        \A lvl \in levels :
            (GatesHoldBelow(lvl) /\ Bucket(lvl) = {}) =>
                /\ levelResult.level >= lvl
                /\ levelResult = calculateLevel(PillarsWithPassingAt(lvl),
                                                ResultsWithPassingAt(lvl))

\* the bucket of level 2 is empty because its only criterion is skipped, the
\* buckets of levels 1 and 3 hold criteria, and a level above 2 is reported
C19_Witness ==
    /\ Scored
    /\ Bucket(1) # {}
    /\ Bucket(2) = {}
    /\ \E ij \in CriteriaAt : CriterionAt(ij).level = 2 /\ SkippedIn(results, ij)
    /\ Bucket(3) # {}
    /\ levelResult.level >= 3

\* scenario B: one pillar holding a single criterion, of level 3, whose result
\* is skipped
ScenarioB ==
    /\ Len(pillars) = 1
    /\ Len(pillars[1].criteria) = 1
    /\ pillars[1].criteria[1].level = 3
    /\ DOMAIN results = {pillars[1].id}
    /\ Len(results[pillars[1].id]) = 1
    /\ results[pillars[1].id][1].criterionId = pillars[1].criteria[1].id
    /\ results[pillars[1].id][1].skipped

\* C20, as stated: in scenario B calculateLevel returns level = 1, nextLevel =
\* 2 and current = needed = remaining = 0.
C20_ScenarioBLevelOne ==
    (Scored /\ ScenarioB) =>
        /\ levelResult.level = 1
        /\ levelResult.nextLevelProgress =
              [current |-> 0, needed |-> 0, remaining |-> 0, nextLevel |-> 2]

\* C20, amended: in scenario B every bucket is empty and passes vacuously:
\* calculateLevel returns level = 5, nextLevel = null and current = needed =
\* remaining = 0.
C20_ScenarioBLevelFive ==
    (Scored /\ ScenarioB) =>
        /\ levelResult.level = MaxMaturityLevel
        /\ levelResult.nextLevelProgress =
              [current |-> 0, needed |-> 0, remaining |-> 0, nextLevel |-> Null]

C20_Witness == Scored /\ ScenarioB

\* the result map is empty; every pillar's score is 0 of 0, 0%
EmptyResults == DOMAIN results = {}
ZeroScores ==
    /\ Len(pillarScores) = Len(pillars)
    /\ \A i \in 1..Len(pillars) :
          pillarScores[i] = [pillarId |-> pillars[i].id, passed |-> 0, total |-> 0,
                             percentage |-> 0]

\* the levels at which the catalog holds a criterion
CatalogLevels == {CriterionAt(ij).level : ij \in CriteriaAt}

\* C21, as stated: for any list of pillars, calculatePillarScores and
\* calculateLevel applied to an empty result map yield level 1 and, for every
\* pillar, a PillarScore with passed = 0, total = 0 and percentage = 0.
C21_EmptyResultsLevelOne ==
    (Scored /\ EmptyResults) => (ZeroScores /\ levelResult.level = 1)

\* C21, amended: on an empty result map every pillar's score is 0 of 0, 0%, and
\* every criterion counts as failed, so the level is the one below the lowest
\* level at which the catalog holds a criterion, 1 at least: level 1 whenever
\* the catalog holds a criterion of level 1 or 2, and level 5 for a catalog
\* without criteria.
C21_EmptyResultsLevelBelowLowestCriterion ==
    (Scored /\ EmptyResults) =>
        /\ ZeroScores
        /\ levelResult.level = IF CatalogLevels = {} THEN MaxMaturityLevel
                               ELSE Max({1, Min(CatalogLevels) - 1})
        /\ CatalogLevels \cap {1, 2} # {} => levelResult.level = 1

\* scored on an empty result map: two pillars with criteria, one of level 1
C21_Witness ==
    /\ Scored
    /\ EmptyResults
    /\ Len(pillars) = 2
    /\ \A i \in 1..Len(pillars) : pillars[i].criteria # <<>>
    /\ 1 \in CatalogLevels
    /\ levelResult.level = 1

(***************************************************************************)
(* C22: detectProject reports every language whose indicator file is at    *)
(* the root: node (package.json), python (pyproject.toml), go (go.mod),    *)
(* rust (Cargo.toml), kotlin (build.gradle.kts), java (pom.xml), csharp    *)
(* (a .csproj or .sln file), ruby (Gemfile), php (composer.json), swift    *)
(* (Package.swift), all of them when several coexist; an empty root gives  *)
(* detectedTypes = [] and isMonorepo = false.                              *)
(***************************************************************************)
Detected == pc = "detected"

\* the indicator files of each language, as the claim lists them
ClaimedIndicators ==
    [node |-> {"package.json"}, python |-> {"pyproject.toml"}, go |-> {"go.mod"},
     rust |-> {"Cargo.toml"}, kotlin |-> {"build.gradle.kts"}, java |-> {"pom.xml"},
     csharp |-> {"MyApp.csproj", "MyApp.sln"}, ruby |-> {"Gemfile"},
     php |-> {"composer.json"}, swift |-> {"Package.swift"}]

C22_EveryIndicatorIsDetected ==
    Detected =>
        /\ \A T \in DOMAIN ClaimedIndicators :
              ClaimedIndicators[T] \cap rootFiles # {}
                  => Includes(projectInfo.detectedTypes, T)
        /\ rootFiles = {} => projectInfo = NoProjectInfo

(***************************************************************************)
(* C23: the failed criteria of the first level whose bucket fails its bar  *)
(***************************************************************************)
\* the k-th recommendation is about a criterion of level lvl
RecAtLevel(k, lvl) ==
    \E ij \in Referred(recommendations[k]) : CriterionAt(ij).level = lvl

\* the positions of the returned list
RecPositions == 1..Len(recommendations)

\* C23 as stated: the recommendations for the failed criteria of the first
\* level whose bucket fails its 80% bar have impact high and stand before
\* every recommendation for a criterion of another level.
C23_BlockingFailuresAreHighAndFirst ==
    (Scored /\ FirstFailed # Null) =>
        LET F == FirstFailed
            blocking == {k \in RecPositions : RecAtLevel(k, F)}
        IN  \A k \in blocking :
                /\ recommendations[k].impact = "high"
                /\ \A m \in RecPositions \ blocking : k < m

\* C23: when the first level whose bucket fails its bar is 2 or higher, the
\* recommendations for its failed criteria have impact high and stand before
\* every recommendation for a criterion of another level; when it is level 1
\* (the level reported is then 1 too), they have impact low and stand after
\* every recommendation for a failed level-2 criterion.
C23_BlockingFailuresAboveLevelOneAreHighAndFirst ==
    (Scored /\ FirstFailed # Null) =>
        LET F == FirstFailed
            blocking == {k \in RecPositions : RecAtLevel(k, F)}
        IN  \A k \in blocking :
                IF F >= 2
                THEN /\ recommendations[k].impact = "high"
                     /\ \A m \in RecPositions \ blocking : k < m
                ELSE /\ recommendations[k].impact = "low"
                     /\ \A m \in RecPositions : RecAtLevel(m, 2) => m < k

\* a blocking failure of a level above 1 was moved in front of a failure of
\* another level that precedes it in the catalog
C23_Witness ==
    /\ Scored
    /\ FirstFailed # Null
    /\ FirstFailed >= 2
    /\ \E k, m \in RecPositions :
          /\ RecAtLevel(k, FirstFailed)
          /\ ~RecAtLevel(m, FirstFailed)
          /\ k < m
          /\ \E a \in Referred(recommendations[k]), b \in Referred(recommendations[m]) :
                CatalogBefore(b, a)

(***************************************************************************)
(* C24: the impact of a recommendation                                     *)
(***************************************************************************)
\* the impact the claim gives to a criterion of level c at achieved level l
ImpactByDistance(c, l) ==
    CASE c = l + 1 -> "high"
      [] c = l + 2 -> "medium"
      [] c <= l \/ c >= l + 3 -> "low"

\* C24: the impact of each recommendation depends on the level c of its
\* criterion and the achieved level l only: high when c = l+1, medium when
\* c = l+2, low otherwise (c <= l or c >= l+3).
C24_ImpactByDistanceToLevel ==
    Scored =>
        \A k \in RecPositions : \A ij \in Referred(recommendations[k]) :
            recommendations[k].impact =
                ImpactByDistance(CriterionAt(ij).level, levelResult.level)

\* one list holds a recommendation of each case: c = l+1, c = l+2, c <= l, c >= l+3
C24_Witness ==
    /\ Scored
    /\ \A d \in {"next", "second", "behind", "far"} :
          \E k \in RecPositions : \E ij \in Referred(recommendations[k]) :
             LET c == CriterionAt(ij).level
                 l == levelResult.level
             IN  CASE d = "next"   -> c = l + 1 /\ recommendations[k].impact = "high"
                   [] d = "second" -> c = l + 2 /\ recommendations[k].impact = "medium"
                   [] d = "behind" -> c <= l /\ recommendations[k].impact = "low"
                   [] d = "far"    -> c >= l + 3 /\ recommendations[k].impact = "low"

(***************************************************************************)
(* C25: the pass flag of a skipped result                                  *)
(***************************************************************************)
\* the skipped results of a result map: pairs <<pillar id, position>>
SkippedResults(rs) ==
    UNION { { <<pid, k>> : k \in {m \in 1..Len(rs[pid]) : rs[pid][m].skipped} } :
            pid \in DOMAIN rs }

\* the result map with the pass flag of every skipped result set to b
WithSkippedPass(rs, b) ==
    [pid \in DOMAIN rs |->
        [k \in 1..Len(rs[pid]) |->
            IF rs[pid][k].skipped THEN [rs[pid][k] EXCEPT !.pass = b]
            ELSE rs[pid][k]]]

\* what the three functions return for the catalog and the result map rs
OutputsOn(rs) ==
    LET scores == calculatePillarScores(pillars, rs)
        lr == calculateLevel(pillars, rs)
    IN  <<scores, lr, generateRecommendations(pillars, rs, scores, lr)>>

\* C25: the pass flag of a skipped result is never observed.  A result map
\* that differs from the one scored only in the pass flags of skipped results
\* (one of them inverted, or all of them set to true, or all to false) gives
\* the same pillar scores, the same level result and the same recommendations.
C25_PassOfSkippedIsNotObserved ==
    Scored =>
        /\ \A b \in BOOLEAN :
              OutputsOn(WithSkippedPass(results, b)) =
                  <<pillarScores, levelResult, recommendations>>
        /\ \A pk \in SkippedResults(results) :
              OutputsOn(FlipPass(results, pk[1], pk[2])) =
                  <<pillarScores, levelResult, recommendations>>

\* the map scored holds a skipped result with pass = true, one with
\* pass = false, a passed and a failed result
C25_Witness ==
    /\ Scored
    /\ \E pid \in DOMAIN results : \E a, b, c, d \in 1..Len(results[pid]) :
          /\ results[pid][a].skipped /\ results[pid][a].pass
          /\ results[pid][b].skipped /\ ~results[pid][b].pass
          /\ ~results[pid][c].skipped /\ results[pid][c].pass
          /\ ~results[pid][d].skipped /\ ~results[pid][d].pass
    /\ recommendations # <<>>

(***************************************************************************)
(* C26: the checks of one pillar are independent (Spec)                    *)
(***************************************************************************)
\* run() is at `await Promise.all(...)` of the pillar at pillarIdx
Waiting == pc = "await"

\* the promises of the current pillar that are still pending
PendingChecks == {j \in 1..Len(promises) : promises[j].state = "pending"}

\* C26: within one pillar every criterion's check is invoked before the engine
\* waits on any of them: when a check of a pillar has settled, or the engine
\* waits, runCriterion has been called for every criterion of the pillar and
\* every check that is not skipped has been invoked.  While the engine waits,
\* each pending check can settle whatever the state of the others, and the
\* pillar is not completed as long as one of them is pending.
C26_ChecksOfAPillarAreIndependent ==
    /\ \A ij, ik \in CriteriaAt :
          (ij[1] = ik[1] /\ KeyAt(ij) \in DOMAIN returned) =>
              (KeyAt(ik) \in invoked \/ SkipsCheck(CriterionAt(ik)))
    /\ pc = "map" => \A j \in 1..Len(promises) :
                         \/ promises[j].state = "pending"
                         \/ SkipsCheck(pillars[pillarIdx].criteria[j])
    /\ Waiting =>
          /\ Len(promises) = Len(pillars[pillarIdx].criteria)
          /\ \A j \in 1..Len(promises) :
                \/ <<pillars[pillarIdx].id, pillars[pillarIdx].criteria[j].id>> \in invoked
                \/ SkipsCheck(pillars[pillarIdx].criteria[j])
          /\ \A j \in PendingChecks : ENABLED CheckSettlesAt(j)
          /\ PendingChecks # {} =>
                /\ ~ENABLED CompletePillar
                /\ ~Notified("complete", pillarIdx)

\* the engine waits on pillar 1: its third check has settled, its first is
\* still pending
C26_Witness ==
    /\ Waiting
    /\ pillarIdx = 1
    /\ Len(promises) = 3
    /\ promises[1].state = "pending"
    /\ <<1, 3>> \in DOMAIN returned
    /\ promises[3].state = "fulfilled"

(***************************************************************************)
(* C27: a failed criterion without advisory text and effort entry          *)
(***************************************************************************)
\* the failed criteria whose id has no entry in CRITERION_INFO nor in EFFORT_MAP
FailingWithoutEntry ==
    {ij \in Failing : /\ CriterionAt(ij).id \notin DOMAIN CRITERION_INFO
                      /\ CriterionAt(ij).id \notin DOMAIN EFFORT_MAP}

\* C27: for a failed criterion whose id has no entry in the advisory-text
\* table or in the effort table, generateRecommendations still emits a
\* recommendation (it is in the list whenever at most 10 criteria failed), its
\* effort is medium, its description is the generic template naming the
\* criterion id and its reason is the generic fallback text.
C27_UnknownIdFallsBackToDefaults ==
    Scored =>
        \A ij \in FailingWithoutEntry :
            /\ Cardinality(Failing) <= MaxRecommendations => ij \in Recommended
            /\ \A k \in RecPositions :
                  RefersTo(recommendations[k], ij) =>
                      /\ recommendations[k].effort = "medium"
                      /\ recommendations[k].description.names = {CriterionAt(ij).id}
                      /\ recommendations[k].description.text
                             \notin {CRITERION_INFO[id].description.text :
                                         id \in DOMAIN CRITERION_INFO}
                      /\ recommendations[k].reason.text
                             \notin {CRITERION_INFO[id].reason.text :
                                         id \in DOMAIN CRITERION_INFO}

(***************************************************************************)
(* C28: calculateLevel is monotone in the results                          *)
(***************************************************************************)
\* the position, in its pillar's result list, of the result found for the criterion
ResultPosition(ij) == Min(MatchesIn(results, ij))

\* the result map with the k-th result of pillar pid marked skipped
SkipResult(rs, pid, k) == [rs EXCEPT ![pid][k].skipped = TRUE]

\* the catalog without the criterion at ij
WithoutCriterion(ps, ij) ==
    [ps EXCEPT ![ij[1]].criteria =
        SubSeq(ps[ij[1]].criteria, 1, ij[2] - 1)
            \o SubSeq(ps[ij[1]].criteria, ij[2] + 1, Len(ps[ij[1]].criteria))]

\* the criteria counted as failed by calculateLevel: not skipped, and failed
\* or without result
CountedAsFailed == {ij \in CriteriaAt : ~SkippedIn(results, ij) /\ ~PassingIn(results, ij)}

\* C28: for a fixed catalog, changing a non-skipped result from fail to pass,
\* skipping a failed result, or excluding from the catalog a criterion counted
\* as failed, never lowers the level calculateLevel returns.
C28_LevelIsMonotone ==
    Scored =>
        /\ \A ij \in Failing :
              LET pid == pillars[ij[1]].id
                  k == ResultPosition(ij)
              IN  /\ calculateLevel(pillars, FlipPass(results, pid, k)).level
                         >= levelResult.level
                  /\ calculateLevel(pillars, SkipResult(results, pid, k)).level
                         >= levelResult.level
        /\ \A ij \in CountedAsFailed :
              calculateLevel(WithoutCriterion(pillars, ij), results).level
                  >= levelResult.level

\* one failed result keeps the level down: passing it, skipping it and
\* excluding its criterion each raise the level
C28_Witness ==
    /\ Scored
    /\ \E ij \in Failing :
          LET pid == pillars[ij[1]].id
              k == ResultPosition(ij)
          IN  /\ calculateLevel(pillars, FlipPass(results, pid, k)).level > levelResult.level
              /\ calculateLevel(pillars, SkipResult(results, pid, k)).level > levelResult.level
              /\ calculateLevel(WithoutCriterion(pillars, ij), results).level
                     > levelResult.level

(***************************************************************************)
(* C29: remaining is positive unless the level-1 gate itself fails         *)
(***************************************************************************)
\* C29: in every LevelResult with nextLevel non-null, remaining >= 1 unless
\* the level-1 bucket fails its 80% bar: remaining = 0 with a next level
\* happens only when the level is 1 and level 1's own gate has failed.
C29_RemainingPositiveUnlessLevelOneFails ==
    (Scored /\ levelResult.nextLevelProgress.nextLevel # Null) =>
        \/ levelResult.nextLevelProgress.remaining >= 1
        \/ levelResult.level = 1 /\ GateFailed(1)

\* a level above 1 with a next level whose bucket is partly passed
C29_Witness ==
    /\ Scored
    /\ levelResult.level >= 2
    /\ levelResult.nextLevelProgress.nextLevel # Null
    /\ levelResult.nextLevelProgress.current >= 1
    /\ levelResult.nextLevelProgress.remaining >= 1

\* the exception of C29: the level-1 gate failed and nothing remains for level 2
C29_Exception ==
    /\ Scored
    /\ GateFailed(1)
    /\ levelResult.nextLevelProgress.nextLevel = 2
    /\ levelResult.nextLevelProgress.remaining = 0
    /\ Bucket(2) # {}

(***************************************************************************)
(* C30: the shipped criteria and the tables of the recommender             *)
(* (CatalogSpec)                                                           *)
(***************************************************************************)
\* C30: every criterion id of the shipped catalog has an entry in both
\* CRITERION_INFO and EFFORT_MAP, so a recommendation for a shipped criterion
\* never carries the generic fallback description, which names the id.
C30_ShippedCriteriaHaveEntries ==
    Scored =>
        /\ \A ij \in CriteriaAt :
              /\ CriterionAt(ij).id \in DOMAIN CRITERION_INFO
              /\ CriterionAt(ij).id \in DOMAIN EFFORT_MAP
        /\ \A k \in RecPositions : recommendations[k].description.names = {}

====
